---- MODULE Spec2Model ----
(***************************************************************************)
(* Vendor/product enrichment pipeline: the batch scheduler                 *)
(* (pipeline/batch_processor.py), the per-row stage graph                  *)
(* (pipeline/orchestrator.py, pipeline/nodes.py), the LLM gateway          *)
(* (pipeline/bedrock_client.py) and the semantic cache                     *)
(* (pipeline/cache_manager.py).                                            *)
(*                                                                         *)
(* Python values are tagged records, so that values of different Python    *)
(* types can be compared: None, str, int, list, dict.  Strings on which    *)
(* the code does character work (labels: lower(), `in`) are sequences of   *)
(* one-character strings; strings the code only copies are opaque.         *)
(***************************************************************************)
EXTENDS Integers, Sequences, FiniteSets, TLC

(***************************************************************************)
(* Bounds of the model.                                                    *)
(***************************************************************************)
MaxRows == 2          \* rows in a batch: 0..MaxRows
MaxConcurrent == 2    \* max_concurrent of the BatchProcessor: 1..MaxConcurrent
PoolSize == 1         \* max_concurrent of the BedrockLLMManager (default 50)
MaxLabelLen == 2      \* length of a label the inference service can return

(***************************************************************************)
(* Python values.                                                          *)
(***************************************************************************)
Absent == [t |-> "absent"]            \* key not present in a dict
PyNone == [t |-> "None"]
PyStr(s) == [t |-> "str", s |-> s]    \* opaque string
PyChars(c) == [t |-> "chars", c |-> c] \* string as a sequence of characters
PyInt(n) == [t |-> "int", n |-> n]
PyList(items) == [t |-> "list", items |-> items]
PyDict(d) == [t |-> "dict", d |-> d]
PyExc(kind) == [t |-> "exception", e |-> kind]

NA == PyChars(<<"N", "/", "A">>)

\* Python truthiness, as used by `if cached:`, `if not response:`, `x or y`.
Truthy(v) ==
    CASE v.t = "absent" -> FALSE
      [] v.t = "None" -> FALSE
      [] v.t = "str" -> v.s # ""
      [] v.t = "chars" -> v.c # <<>>
      [] v.t = "int" -> v.n # 0
      [] v.t = "list" -> v.items # <<>>
      [] v.t = "dict" -> DOMAIN v.d # {}
      [] v.t = "text" -> ~v.empty
      [] OTHER -> TRUE

\* dict.get(key, default)
DictGet(dict, key, default) ==
    IF key \in DOMAIN dict.d THEN dict.d[key] ELSE default

Range(f) == {f[x] : x \in DOMAIN f}

(***************************************************************************)
(* Character strings: str.lower() and the substring test `a in b`.         *)
(***************************************************************************)
Alphabet == {"a", "A", "b"}

LowerChar(ch) ==
    CASE ch = "A" -> "a"
      [] ch = "B" -> "b"
      [] ch = "N" -> "n"
      [] OTHER -> ch

Lower(c) == [k \in DOMAIN c |-> LowerChar(c[k])]

\* Python `a in b` for two strings: a is a contiguous part of b.
IsSubstring(a, b) ==
    \E k \in 0..(Len(b) - Len(a)) : SubSeq(b, k + 1, k + Len(a)) = a

RECURSIVE SeqsUpTo(_, _)
SeqsUpTo(S, n) ==
    IF n = 0 THEN {<<>>}
    ELSE LET shorter == SeqsUpTo(S, n - 1)
         IN shorter \cup {Append(q, x) : q \in shorter, x \in S}

(***************************************************************************)
(* Reference catalog.  get_product_attributes_list returns the sorted,     *)
(* duplicate-free attribute list.  get_taxonomy_list is imported by        *)
(* pipeline/nodes.py from config/reference.py, which does not define it:   *)
(* it is taken from the specification (Reference Catalog: "an ordered list *)
(* of valid taxonomy labels").                                             *)
(***************************************************************************)
TaxonomyCatalog == << PyChars(<<"A", "b">>), PyChars(<<"b", "A">>), PyChars(<<"b">>) >>
AttributeCatalog == << PyChars(<<"A", "b">>), PyChars(<<"a">>) >>

get_taxonomy_list(catalog) == catalog.taxonomy
get_product_attributes_list(catalog) == catalog.attributes

(***************************************************************************)
(* Outcome of a piece of code that may raise.                              *)
(***************************************************************************)
Ok(v) == [ok |-> TRUE, v |-> v]
Raise(kind) == [ok |-> FALSE, v |-> PyExc(kind)]

\* x.get(key, default) on an arbitrary Python value: only a dict has .get
PyGet(x, key, default) ==
    IF x.t = "dict" THEN Ok(DictGet(x, key, default)) ELSE Raise("AttributeError")

(***************************************************************************)
(* Semantic cache (CacheManager).  Keyword arguments are the sequence of   *)
(* the <<name, value>> pairs a call passes, in the order it passes them.   *)
(***************************************************************************)
\* the names of keyword arguments, in the order in which strings sort
SortedNames ==
    <<"product_name", "product_url", "software_type", "type", "vendor_name", "vendor_url">>

ValueOf(kwargs, name) ==
    kwargs[CHOOSE n \in DOMAIN kwargs : kwargs[n][1] = name][2]

\* json.dumps(kwargs, sort_keys=True): the items by the order of their names
sort_keys(kwargs) ==
    LET names == SelectSeq(SortedNames,
                           LAMBDA name : \E n \in DOMAIN kwargs : kwargs[n][1] = name)
    IN  [n \in DOMAIN names |-> <<names[n], ValueOf(kwargs, names[n])>>]

\* a key that would be the md5 of json.dumps(kwargs)
_get_key_unsorted(kwargs) == [md5 |-> kwargs]

\* cache_manager.py 26-29: the md5, taken for collision-free, of the JSON text
_get_key(kwargs) == [md5 |-> sort_keys(kwargs)]

\* an entry that would still be served at its expiry time
LiveThrough(entry, now) == entry.expires_at >= now

\* cache_manager.py 43: if entry["expires_at"] > datetime.now()
Live(entry, now) == entry.expires_at > now

\* cache_manager.py 31-53: what get returns
CacheManager_get(cache, key, now) ==
    IF key \in DOMAIN cache /\ Live(cache[key], now) THEN cache[key].value ELSE PyNone

\* a cache that would drop every expired entry at a get
CacheManager_after_get_sweep(cache, key, now) ==
    [k \in {e \in DOMAIN cache : Live(cache[e], now)} |-> cache[k]]

\* cache_manager.py 38-50: what get leaves in _cache: an expired entry is removed
CacheManager_after_get(cache, key, now) ==
    IF key \in DOMAIN cache /\ ~Live(cache[key], now)
    THEN [k \in DOMAIN cache \ {key} |-> cache[k]]
    ELSE cache

\* a cache that would keep the entry a key already has
CacheManager_set_once(cache, value, ttl_seconds, key, now) ==
    [k \in DOMAIN cache \cup {key} |->
        IF k = key /\ k \notin DOMAIN cache
        THEN [value |-> value, expires_at |-> now + ttl_seconds, created_at |-> now]
        ELSE cache[k]]

\* cache_manager.py 55-70
CacheManager_set(cache, value, ttl_seconds, key, now) ==
    [k \in DOMAIN cache \cup {key} |->
        IF k = key
        THEN [value |-> value, expires_at |-> now + ttl_seconds, created_at |-> now]
        ELSE cache[k]]

(***************************************************************************)
(* LLM gateway (BedrockLLMManager).  A response text is known by what      *)
(* json.loads(extract_json_from_response(text)) makes of it.               *)
(***************************************************************************)
Text(v) == [t |-> "text", empty |-> FALSE, parsed |-> Ok(v)]
GarbageText == [t |-> "text", empty |-> FALSE, parsed |-> Raise("JSONDecodeError")]
\* the service's text was blank: "" after .strip()
EmptyText == [t |-> "text", empty |-> TRUE, parsed |-> Raise("JSONDecodeError")]
NoResult == PyNone
\* invoke_model does not return at all
Never == [t |-> "never"]

ParseJson(text) == text.parsed

\* a gateway that would keep the three arguments apart
KeyOfTriple(prompt, system_prompt, model) ==
    [md5 |-> <<PyStr(model), system_prompt, prompt>>]

\* bedrock_client.py 57-60: the md5, taken for collision-free, of the f-string
\* f"{model}:{system_prompt or ''}:{prompt}"; a str is the sequence of its pieces
_get_cache_key(prompt, system_prompt, model) ==
    [md5 |-> <<PyStr(model), PyStr(":")>>
                \o (IF Truthy(system_prompt) THEN system_prompt.c ELSE <<>>)
                \o <<PyStr(":")>>
                \o prompt.c]

\* _cache is a dict: its items in the order in which their keys were first stored
CachedKeys(llm_cache) == {llm_cache[n].key : n \in DOMAIN llm_cache}

\* bedrock_client.py 62-66
_check_cache(llm_cache, cache_key) ==
    IF \E n \in DOMAIN llm_cache : llm_cache[n].key = cache_key
    THEN llm_cache[CHOOSE n \in DOMAIN llm_cache : llm_cache[n].key = cache_key].result
    ELSE PyNone

\* bedrock_client.py 71: self._cache[cache_key] = result; a key the dict has keeps
\* its place, a new one goes last
DictStore(llm_cache, cache_key, result) ==
    IF \E n \in DOMAIN llm_cache : llm_cache[n].key = cache_key
    THEN [n \in DOMAIN llm_cache |->
            IF llm_cache[n].key = cache_key
            THEN [key |-> cache_key, result |-> result] ELSE llm_cache[n]]
    ELSE Append(llm_cache, [key |-> cache_key, result |-> result])

\* bedrock_client.py 74: len(self._cache) > 1000
CacheCeiling == 1000
\* bedrock_client.py 76: list(self._cache.keys())[:100]
EvictCount == 100

\* a gateway that would never drop an entry
_set_cache_unbounded(llm_cache, cache_key, result) ==
    DictStore(llm_cache, cache_key, result)

\* bedrock_client.py 74-78: over the ceiling, the first keys of the dict are deleted
Evicted(stored) ==
    IF Len(stored) > CacheCeiling
    THEN SubSeq(stored, EvictCount + 1, Len(stored))
    ELSE stored

\* bedrock_client.py 68-78
_set_cache(llm_cache, cache_key, result) ==
    Evicted(DictStore(llm_cache, cache_key, result))

\* The rows of a batch store a handful of keys, far below the ceiling, and only
\* eviction reads the order of the items: the pipeline keeps the dict up to that
\* order, as the one arrangement of its items that InSomeOrder picks.
RECURSIVE InSomeOrder(_)
InSomeOrder(items) ==
    IF items = {} THEN <<>>
    ELSE CHOOSE ordered \in {<<item>> \o InSomeOrder(items \ {item}) :
                                item \in {CHOOSE first \in items : TRUE}} : TRUE

Unordered(llm_cache) ==
    CHOOSE ordered \in {InSomeOrder(items) :
                            items \in {{llm_cache[n] : n \in DOMAIN llm_cache}}} : TRUE

\* a gateway that would store whatever the call ends with
CacheAfterInvokeAlways(llm_cache, cache_key, result) ==
    _set_cache(llm_cache, cache_key, result)

\* bedrock_client.py 147-158: the text of a response is stored, blank or not; an
\* exception of invoke_model or of the decoding of its body skips the store
CacheAfterInvoke(llm_cache, cache_key, result) ==
    IF result = NoResult THEN llm_cache ELSE _set_cache(llm_cache, cache_key, result)

(***************************************************************************)
(* Stages of the row pipeline (pipeline/nodes.py).                         *)
(***************************************************************************)
Members == {"vendor", "product", "taxonomy", "attribute"}
FetchMembers == <<"vendor", "product">>
MatchingMembers == <<"taxonomy", "attribute">>

StateGet(state, field, default) ==
    IF state[field] = Absent THEN default ELSE state[field]

\* keyword arguments of cache.get / cache.set in each stage
Kwargs(m, state) ==
    CASE m = "vendor" ->
            << <<"type", PyStr("vendor_info")>>, <<"vendor_name", state.vendor_name>>,
               <<"vendor_url", state.vendor_url>> >>
      [] m = "product" ->
            << <<"type", PyStr("product_details")>>, <<"product_url", state.product_url>> >>
      [] m = "taxonomy" ->
            << <<"type", PyStr("taxonomy_match")>>,
               <<"software_type", StateGet(state, "software_type", NA)>>,
               <<"product_name", state.product_name>> >>
      [] m = "attribute" ->
            << <<"type", PyStr("attribute_match")>>,
               <<"software_type", StateGet(state, "software_type", NA)>>,
               <<"product_name", state.product_name>> >>

\* the key of the semantic cache each stage reads and writes
SemanticKey(m, state) == _get_key(Kwargs(m, state))

CallArgs(prompt, system_prompt, model) ==
    [prompt |-> prompt, system_prompt |-> system_prompt, model |-> model]

\* prompt, system prompt and model tier each stage hands to call_async
Request(m, state, catalog) ==
    CASE m = "vendor" ->
            CallArgs([template |-> "vendor_info",
                            vendor_name |-> state.vendor_name,
                            vendor_url |-> state.vendor_url,
                            product_name |-> state.product_name,
                            product_url |-> state.product_url],
                           PyNone, "sonnet")
      [] m = "product" ->
            CallArgs([template |-> "product_info",
                            product_name |-> state.product_name,
                            product_url |-> state.product_url],
                           PyNone, "sonnet")
      [] m = "taxonomy" ->
            CallArgs([template |-> "taxonomy",
                            product_name |-> state.product_name,
                            software_type |-> StateGet(state, "software_type", NA),
                            taxonomy_text |-> get_taxonomy_list(catalog)],
                           PyStr("taxonomy classification expert"), "sonnet")
      [] m = "attribute" ->
            CallArgs([template |-> "attribute",
                            product_name |-> state.product_name,
                            software_type |-> StateGet(state, "software_type", NA)],
                           [attributes_text |-> get_product_attributes_list(catalog)],
                           "haiku")

\* a prompt template filled in: one piece of text
Filled(fields) == PyChars(<<fields>>)

\* the key call_async computes for the stage's call
PromptKey(m, state, catalog) ==
    _get_cache_key(Filled(Request(m, state, catalog).prompt),
                   IF Request(m, state, catalog).system_prompt = PyNone
                   THEN PyNone ELSE Filled(Request(m, state, catalog).system_prompt),
                   Request(m, state, catalog).model)

\* stages that would all cache for a day
TtlSecondsDay(m) == 24 * 3600

\* nodes.py 73-79, 134-139, 291-297, 410-416: ttl_seconds of each stage's cache.set
TtlSeconds(m) == IF m \in {"vendor", "product"} THEN 7 * 24 * 3600 ELSE 24 * 3600

OutputField(m) ==
    CASE m = "vendor" -> "vendor_details"
      [] m = "product" -> "product_details"
      [] m = "taxonomy" -> "taxonomy_matches"
      [] m = "attribute" -> "attribute_matches"

TaxonomyEntry(label) == PyDict("Taxonomy Name" :> label)
AttributeEntry(label) == PyDict("Attribute Name" :> label)
TaxonomyNA == PyList(<<TaxonomyEntry(NA), TaxonomyEntry(NA)>>)
AttributeNA == PyList(<<AttributeEntry(NA), AttributeEntry(NA), AttributeEntry(NA)>>)

\* state.get("errors", []) + [message]
AppendError(state, message) == Append(state.errors, message)

\* matches.get(key) or matches.get(legacy, {}).get("Taxonomy Name", "N/A")
ExtractTaxonomyMatch(matches, key, legacy) ==
    LET first == PyGet(matches, key, PyNone)
    IN  IF ~first.ok THEN first
        ELSE IF Truthy(first.v) THEN first
        ELSE PyGet(DictGet(matches, legacy, PyDict(<<>>)), "Taxonomy Name", NA)

\* matches.get(key, {}).get("Attribute Name", "N/A")
ExtractAttributeMatch(matches, key) ==
    LET top == PyGet(matches, key, PyDict(<<>>))
    IN  IF ~top.ok THEN top ELSE PyGet(top.v, "Attribute Name", NA)

\* the catalog entries a label has the case-insensitive substring relation with
FuzzyHits(label, taxonomy_list) ==
    {k \in 1..Len(taxonomy_list) :
        \/ IsSubstring(Lower(label.c), Lower(taxonomy_list[k].c))
        \/ IsSubstring(Lower(taxonomy_list[k].c), Lower(label.c))}

Min(S) == CHOOSE x \in S : \A y \in S : x <= y

\* a validation that would keep a label no entry matches
ValidateTaxonomyTrusting(match, taxonomy_list) ==
    IF match.t # "chars" THEN Raise("AttributeError")
    ELSE IF FuzzyHits(match, taxonomy_list) # {}
         THEN Ok(taxonomy_list[Min(FuzzyHits(match, taxonomy_list))])
         ELSE Ok(match)

\* nodes.py 265-284: exact membership, then the first fuzzy hit, then "N/A";
\* .lower() of a label that is no string raises
ValidateTaxonomy(match, taxonomy_list) ==
    IF match \in Range(taxonomy_list) THEN Ok(match)
    ELSE IF match.t # "chars" THEN Raise("AttributeError")
    ELSE IF FuzzyHits(match, taxonomy_list) # {}
         THEN Ok(taxonomy_list[Min(FuzzyHits(match, taxonomy_list))])
         ELSE Ok(NA)

\* a validation with the substring fallback of the taxonomy stage
ValidateAttributeFuzzy(attr, available_attributes) ==
    IF attr \in Range(available_attributes) THEN attr
    ELSE IF attr.t = "chars" /\ FuzzyHits(attr, available_attributes) # {}
         THEN available_attributes[Min(FuzzyHits(attr, available_attributes))]
         ELSE NA

\* nodes.py 394-402: exact membership or "N/A"
ValidateAttribute(attr, available_attributes) ==
    IF attr \in Range(available_attributes) THEN attr ELSE NA

\* nodes.py 286-289: `result` of the taxonomy stage
TaxonomyList(v1, v2) ==
    IF ~v1.ok THEN v1
    ELSE IF ~v2.ok THEN v2
    ELSE Ok(PyList(<<TaxonomyEntry(v1.v), TaxonomyEntry(v2.v)>>))

\* nodes.py 264-284: both labels are validated, the first one first
TaxonomyValidated(m1, m2, taxonomy_list) ==
    IF ~m1.ok THEN m1
    ELSE IF ~m2.ok THEN m2
    ELSE TaxonomyList(ValidateTaxonomy(m1.v, taxonomy_list),
                      ValidateTaxonomy(m2.v, taxonomy_list))

\* nodes.py 261-262
TaxonomyExtracted(parsed, taxonomy_list) ==
    IF ~parsed.ok THEN parsed
    ELSE TaxonomyValidated(ExtractTaxonomyMatch(parsed.v, "match_1", "Top_Match_1"),
                           ExtractTaxonomyMatch(parsed.v, "match_2", "Top_Match_2"),
                           taxonomy_list)

\* nodes.py 257-289: the taxonomy stage from the response text to `result`
TaxonomyResult(response, taxonomy_list) ==
    TaxonomyExtracted(ParseJson(response), taxonomy_list)

\* nodes.py 393-408: `result` of the attribute stage
AttributeValidated(a1, a2, a3, available_attributes) ==
    IF ~a1.ok THEN a1
    ELSE IF ~a2.ok THEN a2
    ELSE IF ~a3.ok THEN a3
    ELSE Ok(PyList(<<AttributeEntry(ValidateAttribute(a1.v, available_attributes)),
                     AttributeEntry(ValidateAttribute(a2.v, available_attributes)),
                     AttributeEntry(ValidateAttribute(a3.v, available_attributes))>>))

\* nodes.py 389-391
AttributeExtracted(parsed, available_attributes) ==
    IF ~parsed.ok THEN parsed
    ELSE AttributeValidated(ExtractAttributeMatch(parsed.v, "Top_Attribute_1"),
                            ExtractAttributeMatch(parsed.v, "Top_Attribute_2"),
                            ExtractAttributeMatch(parsed.v, "Top_Attribute_3"),
                            available_attributes)

\* nodes.py 385-408: the attribute stage from the response text to `result`
AttributeResult(response, available_attributes) ==
    AttributeExtracted(ParseJson(response), available_attributes)

ErrNoResult(m) == IF m = "vendor" THEN "Vendor info fetch failed" ELSE "Product fetch failed"
ErrException(m) == IF m = "vendor" THEN "Vendor error: JSONDecodeError"
                   ELSE "Product error: JSONDecodeError"

\* A stage's outcome: the partial update it returns and the semantic cache it leaves.
StageOutcome(update, cache) == [update |-> update, cache |-> cache]

\* a fetch stage that would fail without a message
FetchAfterResponseSilent(m, state, response, cache, now) ==
    LET parsed == ParseJson(response)
    IN  IF ~Truthy(response) \/ ~parsed.ok
        THEN StageOutcome(OutputField(m) :> PyNone, cache)
        ELSE StageOutcome(OutputField(m) :> parsed.v,
                          CacheManager_set(cache, parsed.v, TtlSeconds(m),
                                           SemanticKey(m, state), now))

\* nodes.py 63-89 and 126-150: a fetch stage once call_async has returned
FetchAfterResponse(m, state, response, cache, now) ==
    LET parsed == ParseJson(response)
    IN  IF ~Truthy(response)
        THEN StageOutcome((OutputField(m) :> PyNone)
                            @@ ("errors" :> AppendError(state, ErrNoResult(m))),
                          cache)
        ELSE IF ~parsed.ok
        THEN StageOutcome((OutputField(m) :> PyNone)
                            @@ ("errors" :> AppendError(state, ErrException(m))),
                          cache)
        ELSE StageOutcome(OutputField(m) :> parsed.v,
                          CacheManager_set(cache, parsed.v, TtlSeconds(m),
                                           SemanticKey(m, state), now))

\* nodes.py 291-305 and 410-428: the result is cached and returned; any exception
\* of the try block gives the all-"N/A" list
MatchingReturn(m, state, result, cache, now) ==
    IF ~result.ok
    THEN StageOutcome(OutputField(m) :>
                        (IF m = "taxonomy" THEN TaxonomyNA ELSE AttributeNA), cache)
    ELSE StageOutcome(OutputField(m) :> result.v,
                      CacheManager_set(cache, result.v, TtlSeconds(m),
                                       SemanticKey(m, state), now))

\* a matching stage that would cache the all-"N/A" list it returns on no result
MatchingAfterResponseCaching(m, state, response, cache, catalog, now) ==
    IF ~Truthy(response)
    THEN StageOutcome(OutputField(m) :>
                        (IF m = "taxonomy" THEN TaxonomyNA ELSE AttributeNA),
                      CacheManager_set(cache,
                                       IF m = "taxonomy" THEN TaxonomyNA ELSE AttributeNA,
                                       TtlSeconds(m), SemanticKey(m, state), now))
    ELSE MatchingReturn(m, state,
                        IF m = "taxonomy"
                        THEN TaxonomyResult(response, get_taxonomy_list(catalog))
                        ELSE AttributeResult(response, get_product_attributes_list(catalog)),
                        cache, now)

\* nodes.py 252-305 and 376-428: a matching stage once call_async has returned
MatchingAfterResponse(m, state, response, cache, catalog, now) ==
    IF ~Truthy(response)
    THEN StageOutcome(OutputField(m) :>
                        (IF m = "taxonomy" THEN TaxonomyNA ELSE AttributeNA), cache)
    ELSE MatchingReturn(m, state,
                        IF m = "taxonomy"
                        THEN TaxonomyResult(response, get_taxonomy_list(catalog))
                        ELSE AttributeResult(response, get_product_attributes_list(catalog)),
                        cache, now)

AfterResponse(m, state, response, cache, catalog, now) ==
    IF m \in {"vendor", "product"}
    THEN FetchAfterResponse(m, state, response, cache, now)
    ELSE MatchingAfterResponse(m, state, response, cache, catalog, now)

\* a matching stage that would not look at its catalog
CatalogEmptyNever(m, catalog) == FALSE

\* nodes.py 194-201 and 327-334: a matching stage returns at once on an empty catalog
CatalogEmpty(m, catalog) ==
    \/ m = "taxonomy" /\ get_taxonomy_list(catalog) = <<>>
    \/ m = "attribute" /\ get_product_attributes_list(catalog) = <<>>

\* nodes.py 434-446
find_platform_taxonomy_node ==
    "platform_matches" :> PyList(<<PyDict("Taxonomy Code" :> PyStr("Software")),
                                   PyDict("Taxonomy Code" :> PyStr("SaaS"))>>)

\* ", ".join(items): raises when an item is no string
RECURSIVE JoinComma(_)
JoinComma(items) ==
    IF items = <<>> THEN Ok(<<>>)
    ELSE IF items[1].t # "chars" THEN Raise("TypeError")
    ELSE IF Len(items) = 1 THEN Ok(items[1].c)
    ELSE LET rest == JoinComma(Tail(items))
         IN  IF ~rest.ok THEN rest ELSE Ok(items[1].c \o <<",", " ">> \o rest.v)

\* nodes.py 157-177
extract_software_type_node(state) ==
    LET product_details == StateGet(state, "product_details", PyNone)
        software_type == PyGet(product_details, "Type_of_Product", NA)
        joined == JoinComma(software_type.v.items)
    IN  IF ~Truthy(product_details)
        THEN Ok(("software_type" :> NA)
                  @@ ("errors" :> AppendError(state, "No product details available")))
        ELSE IF ~software_type.ok THEN software_type
        ELSE IF software_type.v.t = "list"
             THEN IF ~joined.ok THEN joined
                  ELSE Ok("software_type" :>
                            (IF joined.v # <<>> THEN PyChars(joined.v) ELSE NA))
        ELSE Ok("software_type" :>
                  (IF Truthy(software_type.v) THEN software_type.v ELSE NA))

\* "; ".join(errors) if errors else "None"
RECURSIVE JoinSemi(_)
JoinSemi(errors) ==
    IF errors = <<>> THEN <<>>
    ELSE IF Len(errors) = 1 THEN errors
    ELSE <<errors[1], "; ">> \o JoinSemi(Tail(errors))

ErrorsColumn(errors) == IF errors # <<>> THEN JoinSemi(errors) ELSE <<"None">>

\* matches[k].get(key, "N/A") if len(matches) > k else "N/A"   (k counted from 0)
MatchColumn(matches, k, key) ==
    IF Len(matches.items) > k THEN DictGet(matches.items[k + 1], key, NA) ELSE NA

\* nodes.py 453-506
format_output_node(state) ==
    LET vd0 == StateGet(state, "vendor_details", PyDict(<<>>))
        pd0 == StateGet(state, "product_details", PyDict(<<>>))
        vendor_details == IF Truthy(vd0) THEN vd0 ELSE PyDict(<<>>)
        product_details == IF Truthy(pd0) THEN pd0 ELSE PyDict(<<>>)
        taxonomy_matches == StateGet(state, "taxonomy_matches", PyList(<<>>))
        attribute_matches == StateGet(state, "attribute_matches", PyList(<<>>))
        platform_matches == StateGet(state, "platform_matches", PyList(<<>>))
    IN  IF vendor_details.t # "dict" \/ product_details.t # "dict"
        THEN Raise("AttributeError")
        ELSE Ok("result" :> [
            vendor_name |-> state.vendor_name,
            vendor_url |-> state.vendor_url,
            product_name |-> state.product_name,
            product_url |-> state.product_url,
            legal_vendor_name |-> DictGet(vendor_details, "Legal_Vendor_Name", NA),
            official_vendor_website |-> DictGet(vendor_details, "Official_Vendor_Website", NA),
            acquiring_company |-> DictGet(vendor_details, "Acquiring_Company_Name", NA),
            wikipedia_link |-> DictGet(vendor_details, "Wikipedia_link", NA),
            linkedin_profile |-> DictGet(vendor_details, "LinkedIn_profile", NA),
            founded_year |-> DictGet(vendor_details, "Founded_Year", NA),
            product_type |-> DictGet(product_details, "Type_of_Product", NA),
            product_users |-> DictGet(product_details, "Type_of_users", NA),
            product_tasks |-> DictGet(product_details, "Tasks_a_user_can_perform", NA),
            product_features |-> DictGet(product_details, "Product_features", NA),
            taxonomy_match_1 |-> MatchColumn(taxonomy_matches, 0, "Taxonomy Name"),
            taxonomy_match_2 |-> MatchColumn(taxonomy_matches, 1, "Taxonomy Name"),
            attribute_1 |-> MatchColumn(attribute_matches, 0, "Attribute Name"),
            attribute_2 |-> MatchColumn(attribute_matches, 1, "Attribute Name"),
            attribute_3 |-> MatchColumn(attribute_matches, 2, "Attribute Name"),
            platform_1 |-> MatchColumn(platform_matches, 0, "Taxonomy Code"),
            platform_2 |-> MatchColumn(platform_matches, 1, "Taxonomy Code"),
            errors |-> ErrorsColumn(state.errors),
            row_id |-> state.row_id])

\* dict.update and the overwrite of Row State keys by a node's return value
DictUpdate(base, update) ==
    [f \in DOMAIN base \cup DOMAIN update |->
        IF f \in DOMAIN update THEN update[f] ELSE base[f]]

\* state.py 17-22: the input fields of a Row State
InputFields == {"row_id", "vendor_name", "vendor_url", "product_name", "product_url"}

\* state.py 24-35: the fields the stages populate
StageFields == {"vendor_details", "product_details", "software_type",
                "taxonomy_matches", "attribute_matches", "platform_matches", "result"}

\* a graph that would hand each node's return value on without the keys of the
\* nodes before it
ApplyUpdateFresh(state, update) ==
    [f \in DOMAIN state |->
        IF f \in DOMAIN update THEN update[f]
        ELSE IF f \in StageFields THEN Absent ELSE state[f]]

\* orchestrator.py 78-107: the graph keeps one Row State per run; a node's return
\* value overwrites the keys it names and leaves every other key as it was
ApplyUpdate(state, update) ==
    [f \in DOMAIN state |-> IF f \in DOMAIN update THEN update[f] ELSE state[f]]

\* orchestrator.py 121-129, with f"row_{i}" of batch_processor.py 58
RowId(i) == <<"row_", i - 1>>

\* row.get(column, "")
RowGet(row, column) == IF column \in DOMAIN row THEN row[column] ELSE PyStr("")

initial_state(row, row_id) ==
    [row_id |-> row_id,
     vendor_name |-> RowGet(row, "vendor_name"),
     vendor_url |-> RowGet(row, "vendor_url"),
     product_name |-> RowGet(row, "product_name"),
     product_url |-> RowGet(row, "product_url"),
     vendor_details |-> Absent,
     product_details |-> Absent,
     software_type |-> Absent,
     taxonomy_matches |-> Absent,
     attribute_matches |-> Absent,
     platform_matches |-> Absent,
     result |-> Absent,
     errors |-> <<>>,
     retry_count |-> 0]

\* orchestrator.py 138-146: the record of a row whose graph run raised
PipelineErrorRecord(row, row_id, exc) ==
    [error |-> PyStr(exc.e), row_id |-> row_id,
     vendor_name |-> RowGet(row, "vendor_name"),
     product_name |-> RowGet(row, "product_name")]

\* batch_processor.py 70-76: the record of a row whose task raised
TaskErrorRecord(row, exc) ==
    [error |-> PyStr(exc.e),
     vendor_name |-> RowGet(row, "vendor_name"),
     product_name |-> RowGet(row, "product_name")]

(***************************************************************************)
(* What the inference service can answer.  A repertoire names, per stage,  *)
(* the kinds of answer the service may give; the answers of a kind are     *)
(* built from the prompt.                                                  *)
(***************************************************************************)
Str3(a, b, c) == PyChars(<<a, b, c>>)

VendorObject(prompt) ==
    PyDict([Legal_Vendor_Name |-> prompt.vendor_name,
            Official_Vendor_Website |-> prompt.vendor_url,
            Acquiring_Company_Name |-> PyStr("None"),
            Wikipedia_link |-> PyStr("wikipedia"),
            LinkedIn_profile |-> PyStr("linkedin"),
            Founded_Year |-> PyInt(1999)])

ProductObject(prompt) ==
    PyDict([Product_Name |-> prompt.product_name,
            Product_link |-> prompt.product_url,
            Type_of_Product |-> Str3("C", "R", "M"),
            Type_of_users |-> PyStr("users"),
            Tasks_a_user_can_perform |-> PyStr("tasks"),
            Product_features |-> PyStr("features")])

Labels == {PyChars(c) : c \in SeqsUpTo(Alphabet, MaxLabelLen)}
LabelValues == Labels \cup {PyInt(7), Absent}

\* a JSON object holding the keys whose value is given
JsonObject(keys, value) ==
    PyDict([k \in {x \in keys : value[x] # Absent} |-> value[k]])

TaxonomyJson(l1, l2) ==
    JsonObject({"match_1", "match_2"}, ("match_1" :> l1) @@ ("match_2" :> l2))

LegacyTaxonomyJson(l1, l2) ==
    PyDict(("Top_Match_1" :> TaxonomyEntry(l1)) @@ ("Top_Match_2" :> TaxonomyEntry(l2)))

AttributeJson(l1, l2, l3) ==
    LET wrap(l) == IF l = Absent THEN Absent ELSE AttributeEntry(l)
    IN  JsonObject({"Top_Attribute_1", "Top_Attribute_2", "Top_Attribute_3"},
                   ("Top_Attribute_1" :> wrap(l1)) @@ ("Top_Attribute_2" :> wrap(l2))
                     @@ ("Top_Attribute_3" :> wrap(l3)))

\* the service copying the first catalog entries, as the prompt asks
Copied(list, k) ==
    IF list = <<>> THEN NA ELSE IF Len(list) >= k THEN list[k] ELSE list[Len(list)]

Answers(kind, m, key) ==
    CASE kind = "none" -> {NoResult}
      [] kind = "garbage" -> {GarbageText}
      [] kind = "empty" -> {EmptyText}
      [] kind = "hang" -> {Never}
      [] kind = "other" -> {Text(PyDict("Legal_Vendor_Name" :> PyStr("Other Inc")))}
      [] kind = "empty object" -> {Text(PyDict(<<>>))}
      [] kind = "array" -> {Text(PyList(<<PyInt(1)>>))}
      [] kind = "object" /\ m = "vendor" -> {Text(VendorObject(key.prompt))}
      [] kind = "object" /\ m = "product" -> {Text(ProductObject(key.prompt))}
      [] kind = "object" /\ m = "taxonomy" ->
            {Text(TaxonomyJson(Copied(key.prompt.taxonomy_text, 1),
                               Copied(key.prompt.taxonomy_text, 3)))}
      [] kind = "object" /\ m = "attribute" ->
            {Text(AttributeJson(Copied(key.system_prompt.attributes_text, 1),
                                Copied(key.system_prompt.attributes_text, 2),
                                Copied(key.system_prompt.attributes_text, 2)))}
      [] kind = "labels" /\ m = "taxonomy" ->
            {Text(TaxonomyJson(l1, l2)) : l1, l2 \in LabelValues}
      [] kind = "labels" /\ m = "attribute" ->
            {Text(AttributeJson(l1, l2, l1)) : l1, l2 \in LabelValues}
      [] kind = "legacy" /\ m = "taxonomy" ->
            {Text(LegacyTaxonomyJson(l1, l1)) : l1 \in Labels}
              \cup {Text(PyDict("Top_Match_1" :> PyStr("flat")))}
      [] kind = "legacy" /\ m = "attribute" ->
            {Text(PyDict("Top_Attribute_1" :> PyStr("flat")))}
      [] OTHER -> {}

Responses(kinds, m, key) == UNION {Answers(kind, m, key) : kind \in kinds}

(***************************************************************************)
(* State.                                                                  *)
(***************************************************************************)
VARIABLES
    rows,               \* df.to_dict('records'): the input rows
    max_concurrent,     \* BatchProcessor.max_concurrent
    catalog,            \* the reference catalog loaded at start
    repertoire,         \* kinds of answer of the inference service, per stage
    semaphore,          \* free permits of BatchProcessor.semaphore
    llm_semaphore,      \* free permits of BedrockLLMManager.semaphore
    pc,                 \* per row: where its task stands
    state,              \* per row: the Row State of its graph run
    calls,              \* per row and stage: the stage's call and its return value
    results,            \* per row: what asyncio.gather holds for its task
    cache,              \* CacheManager._cache
    llm_cache,          \* BedrockLLMManager._cache
    processed_results,  \* what process_batch returned
    appended,           \* history, per row: the messages its stages appended, in stage order
    now,                \* datetime.now(), in seconds
    probe,              \* history: what the operations under study were given and gave
    payload,            \* what the entry point was called with
    entry_result        \* what the entry point returned

pipeline_vars ==
    <<rows, max_concurrent, catalog, repertoire, semaphore, llm_semaphore, pc,
      state, calls, results, cache, llm_cache, processed_results, appended>>

vars == <<rows, max_concurrent, catalog, repertoire, semaphore, llm_semaphore, pc,
          state, calls, results, cache, llm_cache, processed_results, appended,
          now, probe, payload, entry_result>>

RowIndices == 1..Len(rows)

\* batch_processor.py 67-80: the list process_batch returns
Records == processed_results.records

Row(vendor_name, vendor_url, product_name, product_url) ==
    [vendor_name |-> PyStr(vendor_name), vendor_url |-> PyStr(vendor_url),
     product_name |-> PyStr(product_name), product_url |-> PyStr(product_url)]

RowA == Row("Salesforce", "salesforce.com", "Sales Cloud", "salesforce.com/sales")
RowB == Row("Okta", "okta.com", "Okta SSO", "okta.com/sso")

\* input tables of up to n rows: the same product twice and then another one,
\* and the table of two different products
Batches(n) ==
    {[j \in 1..k |-> IF j <= 2 THEN RowA ELSE RowB] : k \in 0..n}
      \cup {[j \in 1..k |-> IF j = 1 THEN RowA ELSE RowB] : k \in {x \in {2} : x <= n}}

LoadedCatalog == [taxonomy |-> TaxonomyCatalog, attributes |-> AttributeCatalog]
EmptyCatalog == [taxonomy |-> <<>>, attributes |-> <<>>]

NotCalled == [t |-> "not called"]

\* a stage's task: its call to the gateway and, once done, the partial update it
\* returned; `got` and `slot` are history: the response call_async handed to
\* the stage, and whether the call took a permit of the gateway's semaphore
IdleCall == [status |-> "idle", update |-> <<>>, got |-> NotCalled, slot |-> FALSE]
\* a stage that would run again after a call that gave it nothing
RetriedCall(update, got, slot) ==
    IF got = NoResult THEN IdleCall
    ELSE [status |-> "done", update |-> update, got |-> got, slot |-> slot]
DoneCall(update, got, slot) ==
    [status |-> "done", update |-> update, got |-> got, slot |-> slot]

\* no set and no get yet
NoProbe == [sets |-> <<>>, got |-> Absent]

\* process_dataframe_batch called directly, not through an entry point
NoPayload == [t |-> "no payload"]

\* the objects of a batch run before its first row starts
BatchInit(batches, ks, catalogs, repertoires) ==
    /\ rows \in batches
    /\ max_concurrent \in ks
    /\ catalog \in catalogs
    /\ repertoire \in repertoires
    /\ semaphore = max_concurrent
    /\ llm_semaphore = PoolSize
    /\ pc = [i \in RowIndices |-> "queued"]
    /\ state = [i \in RowIndices |-> initial_state(rows[i], RowId(i))]
    /\ calls = [i \in RowIndices |-> [m \in Members |-> IdleCall]]
    /\ results = [i \in RowIndices |-> Absent]
    /\ cache = <<>>
    /\ llm_cache = <<>>
    /\ processed_results = [returned |-> FALSE, records |-> <<>>]
    /\ appended = [i \in RowIndices |-> <<>>]
    /\ now = 0

InitWith(batches, ks, catalogs, repertoires) ==
    /\ BatchInit(batches, ks, catalogs, repertoires)
    /\ probe = NoProbe
    /\ payload = NoPayload
    /\ entry_result = Absent

(***************************************************************************)
(* A stage up to its first suspension.  `w` carries the shared objects the *)
(* stage reads and writes: the semantic cache, the gateway's cache and the *)
(* free permits of the gateway's semaphore.                                *)
(***************************************************************************)
World(c, lc, permits, clock) ==
    [cache |-> c, llm_cache |-> lc, llm_semaphore |-> permits, now |-> clock]

Begun(call, w) == [call |-> call, w |-> w]

\* a gate that would let every call out
AcquireOrWaitUnbounded(permits) ==
    [status |-> "inflight", permits |-> permits - 1]

\* bedrock_client.py 108: with a free permit the call goes out, else it waits
AcquireOrWait(permits) ==
    IF permits > 0 THEN [status |-> "inflight", permits |-> permits - 1]
    ELSE [status |-> "waiting", permits |-> permits]

\* bedrock_client.py 99-105: a text in the gateway's cache is returned at once
\* and the stage runs on to its return
BegunFromCache(out, raw, w) ==
    Begun(DoneCall(out.update, raw, FALSE), World(out.cache, w.llm_cache, w.llm_semaphore, w.now))

\* bedrock_client.py 108: the call takes a permit or waits for one
BegunAtGate(gate, w) ==
    Begun([status |-> gate.status, update |-> <<>>, got |-> NotCalled,
           slot |-> gate.status = "inflight"],
          World(w.cache, w.llm_cache, gate.permits, w.now))

\* bedrock_client.py 99-108: call_async up to its first suspension
BeginCall(m, st, w, cat, raw) ==
    IF Truthy(raw)
    THEN BegunFromCache(AfterResponse(m, st, raw, w.cache, cat, w.now), raw, w)
    ELSE BegunAtGate(AcquireOrWait(w.llm_semaphore), w)

\* nodes.py 39-61, 106-124, 192-250, 325-374: a stage up to its first suspension
BeginMember(m, st, w, cat) ==
    IF m \in {"taxonomy", "attribute"} /\ CatalogEmpty(m, cat)
    THEN Begun(DoneCall(OutputField(m) :>
                          (IF m = "taxonomy" THEN TaxonomyNA ELSE AttributeNA),
                        NotCalled, FALSE), w)
    ELSE IF Truthy(CacheManager_get(w.cache, SemanticKey(m, st), w.now))
    THEN Begun(DoneCall(OutputField(m) :>
                          CacheManager_get(w.cache, SemanticKey(m, st), w.now),
                        NotCalled, FALSE), w)
    ELSE BeginCall(m, st,
                   World(CacheManager_after_get(w.cache, SemanticKey(m, st), w.now),
                         w.llm_cache, w.llm_semaphore, w.now),
                   cat, _check_cache(w.llm_cache, PromptKey(m, st, cat)))

\* the second member starts where the first one left the shared objects
BeginSecond(members, st, b1, b2) ==
    [calls |-> (members[1] :> b1.call) @@ (members[2] :> b2.call), w |-> b2.w]

BeginAfterFirst(members, st, b1, cat) ==
    BeginSecond(members, st, b1, BeginMember(members[2], st, b1.w, cat))

\* orchestrator.py 30-37 and 55-63: the members of a fan-out start one after another
BeginFanOut(members, st, w, cat) ==
    BeginAfterFirst(members, st, BeginMember(members[1], st, w, cat), cat)

\* a join that would go on as soon as one member has returned
AnyDone(cs, members) == \E k \in DOMAIN members : cs[members[k]].status = "done"

\* orchestrator.py 36 and 57-61: `await asyncio.gather(...)` returns when every
\* member has returned
AllDone(cs, members) == \A k \in DOMAIN members : cs[members[k]].status = "done"

\* orchestrator.py 39-46: merged.update(vendor_result); merged.update(product_result)
MergeFetch(cs) ==
    DictUpdate(cs["vendor"].update, cs["product"].update)

\* a join that would leave out the platform member's return value
MergeMatchingTwo(cs) ==
    DictUpdate(cs["taxonomy"].update, cs["attribute"].update)

\* orchestrator.py 65-74
MergeMatching(cs) ==
    DictUpdate(DictUpdate(cs["taxonomy"].update, cs["attribute"].update),
               find_platform_taxonomy_node)

(***************************************************************************)
(* Actions.                                                                *)
(***************************************************************************)
IsException(result) == "t" \in DOMAIN result /\ result.t = "exception"

\* a gather that would keep the results in the order of completion
GatherStoreCompletionOrder(res, i, r) ==
    [res EXCEPT ![Min({j \in DOMAIN res : res[j] = Absent})] = r]

\* batch_processor.py 65: asyncio.gather keeps each task's result at the task's position
GatherStore(res, i, r) == [res EXCEPT ![i] = r]

\* a collection that would hand the exception on as it is
CollectedRaw(row, result) == result

\* batch_processor.py 69-78
Collected(row, result) ==
    IF IsException(result) THEN TaskErrorRecord(row, result) ELSE result

\* one Row State that every row would write to
StoreStateShared(states, i, st) == [j \in DOMAIN states |-> st]

\* orchestrator.py 122-136: each call of run_pipeline_for_row builds its own
\* initial_state and its own graph run; a node's return value goes to that run
StoreState(states, i, st) == [states EXCEPT ![i] = st]

\* a gate that would let every row in
CanAdmitAlways(permits) == TRUE

\* batch_processor.py 40: `async with self.semaphore` lets a row in on a free permit
CanAdmit(permits) == permits > 0

\* the messages a fan-out's members appended, in the order of the members
MessagesOf(cs, members) ==
    LET msg(m) == IF "errors" \in DOMAIN cs[m].update
                  THEN <<cs[m].update["errors"][Len(cs[m].update["errors"])]>>
                  ELSE <<>>
    IN  msg(members[1]) \o msg(members[2])

\* batch_processor.py 40-43, orchestrator.py 121-136 up to the first suspension of
\* parallel_fetch_node; build_pipeline_graph (orchestrator.py 133) is outside the try.
\* The tasks are created in row order (batch_processor.py 57-61) and the semaphore
\* wakes its waiters first come, first served: rows enter in row order.
Admit(i) ==
    /\ pc[i] = "queued"
    /\ \A j \in 1..(i - 1) : pc[j] # "queued"
    /\ CanAdmit(semaphore)
    /\ \E built \in repertoire.build :
        IF built = "raise"
        THEN /\ results' = GatherStore(results, i, PyExc("RuntimeError"))
             /\ pc' = [pc EXCEPT ![i] = "done"]
             /\ UNCHANGED <<semaphore, llm_semaphore, calls, cache, llm_cache>>
        ELSE \E b \in {BeginFanOut(FetchMembers, state[i],
                                   World(cache, llm_cache, llm_semaphore, now), catalog)} :
                 /\ semaphore' = semaphore - 1
                 /\ pc' = [pc EXCEPT ![i] = "fetch"]
                 /\ calls' = [calls EXCEPT ![i] = b.calls @@ calls[i]]
                 /\ cache' = b.w.cache
                 /\ llm_cache' = b.w.llm_cache
                 /\ llm_semaphore' = b.w.llm_semaphore
                 /\ UNCHANGED results
    /\ UNCHANGED <<now, probe, payload, entry_result>>
    /\ UNCHANGED <<rows, max_concurrent, catalog, repertoire, state,
                   processed_results, appended>>

\* bedrock_client.py 108: a waiting call gets a permit
AcquireSlot(i, m) ==
    /\ calls[i][m].status = "waiting"
    /\ llm_semaphore > 0
    /\ llm_semaphore' = llm_semaphore - 1
    /\ calls' = [calls EXCEPT ![i][m].status = "inflight", ![i][m].slot = TRUE]
    /\ UNCHANGED <<now, probe, payload, entry_result>>
    /\ UNCHANGED <<rows, max_concurrent, catalog, repertoire, semaphore, pc, state,
                   results, cache, llm_cache, processed_results, appended>>

\* a call that would keep its permit after its return
Kept(permits) == permits

\* bedrock_client.py 108: leaving `async with self.semaphore` gives the permit back
Released(permits) == permits + 1

\* a gateway that would give up on an invocation and hand the stage no result
GivesUp(call) == [call EXCEPT !.status = "done", !.got = Never]

\* bedrock_client.py 129-138: `await loop.run_in_executor(...)` has no timeout: a
\* call whose invocation does not return stays inside `async with self.semaphore`
StaysPending(call) == [call EXCEPT !.status = "hung", !.got = Never]

\* bedrock_client.py 108-158: invoke_model returns or raises; the permit is released,
\* a text is stored in the gateway's cache, and the stage runs to its return.  An
\* invocation that never returns leaves the call where it is, for good.
Respond(i, m) ==
    /\ calls[i][m].status = "inflight"
    /\ \E response \in Responses(repertoire[m], m, Request(m, state[i], catalog)) :
        IF response = Never
        THEN /\ calls' = [calls EXCEPT ![i][m] = StaysPending(@)]
             /\ UNCHANGED <<llm_semaphore, llm_cache, cache>>
        ELSE \E out \in {AfterResponse(m, state[i], response, cache, catalog, now)} :
            /\ llm_semaphore' = Released(llm_semaphore)
            /\ llm_cache' = Unordered(CacheAfterInvoke(llm_cache,
                                                       PromptKey(m, state[i], catalog),
                                                       response))
            /\ cache' = out.cache
            /\ calls' = [calls EXCEPT ![i][m] = DoneCall(out.update, response, TRUE)]
    /\ UNCHANGED <<now, probe, payload, entry_result>>
    /\ UNCHANGED <<rows, max_concurrent, catalog, repertoire, semaphore, pc, state,
                   results, processed_results, appended>>

\* orchestrator.py 138-146: the graph run raised; the row returns its error record
\* and leaves `async with self.semaphore`
RowFails(i, st, exc) ==
    /\ results' = GatherStore(results, i, PipelineErrorRecord(rows[i], RowId(i), exc))
    /\ state' = StoreState(state, i, st)
    /\ pc' = [pc EXCEPT ![i] = "done"]
    /\ semaphore' = semaphore + 1
    /\ UNCHANGED calls

\* orchestrator.py 39-46 (the join of the fetch fan-out), nodes.py 157-177
\* (extract_software_type_node) and orchestrator.py 55-63 (the matching fan-out
\* up to its first suspension)
ExtractType(i) ==
    /\ pc[i] = "fetch"
    /\ AllDone(calls[i], FetchMembers)
    /\ \E joined \in {ApplyUpdate(state[i], MergeFetch(calls[i]))} :
       \E extracted \in {extract_software_type_node(joined)} :
           IF ~extracted.ok
           THEN /\ RowFails(i, joined, extracted.v)
                /\ appended' = [appended EXCEPT ![i] =
                        @ \o MessagesOf(calls[i], FetchMembers)]
                /\ UNCHANGED <<cache, llm_cache, llm_semaphore>>
           ELSE \E typed \in {ApplyUpdate(joined, extracted.v)} :
                \E b \in {BeginFanOut(MatchingMembers, typed,
                                      World(cache, llm_cache, llm_semaphore, now), catalog)} :
                /\ state' = StoreState(state, i, typed)
                /\ pc' = [pc EXCEPT ![i] = "matching"]
                /\ calls' = [calls EXCEPT ![i] = b.calls @@ calls[i]]
                /\ cache' = b.w.cache
                /\ llm_cache' = b.w.llm_cache
                /\ llm_semaphore' = b.w.llm_semaphore
                /\ appended' = [appended EXCEPT ![i] =
                        @ \o MessagesOf(calls[i], FetchMembers) \o
                        (IF "errors" \in DOMAIN extracted.v
                         THEN <<extracted.v["errors"][Len(extracted.v["errors"])]>>
                         ELSE <<>>)]
                /\ UNCHANGED <<semaphore, results>>
    /\ UNCHANGED <<now, probe, payload, entry_result>>
    /\ UNCHANGED <<rows, max_concurrent, catalog, repertoire, processed_results>>

\* orchestrator.py 65-74 (the join of the matching fan-out), nodes.py 453-506
\* (format_output_node) and orchestrator.py 135-136 (the row returns its record)
FormatOutput(i) ==
    /\ pc[i] = "matching"
    /\ AllDone(calls[i], MatchingMembers)
    /\ \E joined \in {ApplyUpdate(state[i], MergeMatching(calls[i]))} :
       \E formatted \in {format_output_node(joined)} :
           IF ~formatted.ok
           THEN RowFails(i, joined, formatted.v)
           ELSE \E final \in {ApplyUpdate(joined, formatted.v)} :
                /\ state' = StoreState(state, i, final)
                /\ results' = GatherStore(results, i, StateGet(final, "result", PyDict(<<>>)))
                /\ pc' = [pc EXCEPT ![i] = "done"]
                /\ semaphore' = semaphore + 1
    /\ UNCHANGED <<now, probe, payload, entry_result>>
    /\ UNCHANGED <<rows, max_concurrent, catalog, repertoire, llm_semaphore, cache,
                   llm_cache, calls, processed_results, appended>>

\* batch_processor.py 20-28: the BatchProcessor exists; max_concurrent is 0 as long
\* as __init__ has not run
Constructed == max_concurrent > 0

\* batch_processor.py 65-80: every task is done; process_batch returns
GatherReturn ==
    /\ Constructed
    /\ ~processed_results.returned
    /\ \A i \in RowIndices : pc[i] = "done"
    /\ processed_results' =
          [returned |-> TRUE,
           records |-> [i \in RowIndices |-> Collected(rows[i], results[i])]]
    /\ UNCHANGED <<now, probe, payload, entry_result>>
    /\ UNCHANGED <<rows, max_concurrent, catalog, repertoire, semaphore, llm_semaphore,
                   pc, state, calls, results, cache, llm_cache, appended>>

Next ==
    \/ \E i \in RowIndices : Admit(i)
    \/ \E i \in RowIndices, m \in Members : AcquireSlot(i, m)
    \/ \E i \in RowIndices, m \in Members : Respond(i, m)
    \/ \E i \in RowIndices : ExtractType(i)
    \/ \E i \in RowIndices : FormatOutput(i)
    \/ GatherReturn

(***************************************************************************)
(* Specifications.                                                         *)
(***************************************************************************)
BatchRepertoire ==
    [vendor |-> {"none", "object"}, product |-> {"object", "array"},
     taxonomy |-> {"object"}, attribute |-> {"object"}, build |-> {"ok", "raise"}]

Init == InitWith(Batches(MaxRows), 1..MaxConcurrent, {LoadedCatalog}, {BatchRepertoire})

Spec == Init /\ [][Next]_vars

\* One product, once or twice, one row at a time, with the catalog loaded or
\* empty, against an inference service that fails in every way (FailingService)
\* or returns every label (TaxonomyLabels, AttributeLabels).
FailingService ==
    [vendor |-> {"none", "garbage", "empty", "object", "array"},
     product |-> {"none", "garbage", "object", "array"},
     taxonomy |-> {"none", "garbage", "object"},
     attribute |-> {"none", "garbage", "object"}, build |-> {"ok"}]

TaxonomyLabels ==
    [vendor |-> {"object"}, product |-> {"object"},
     taxonomy |-> {"labels", "legacy"}, attribute |-> {"object"}, build |-> {"ok"}]

AttributeLabels ==
    [vendor |-> {"object"}, product |-> {"object"},
     taxonomy |-> {"object"}, attribute |-> {"labels", "legacy"}, build |-> {"ok"}]

RowInit ==
    InitWith({<<RowA>>, <<RowA, RowA>>}, {1}, {LoadedCatalog, EmptyCatalog},
             {FailingService, TaxonomyLabels, AttributeLabels})

RowSpec == RowInit /\ [][Next]_vars

\* Two rows of different products against an inference service whose vendor
\* invocation may never return, with the event loop running every task that can
\* run and every invocation in flight coming to its end, a response, a failure or
\* the verdict that it never returns.
StallingService ==
    [vendor |-> {"object", "hang"}, product |-> {"object"},
     taxonomy |-> {"object"}, attribute |-> {"none", "object"}, build |-> {"ok"}]

LiveBatch == <<RowA, RowB>>

LiveInit == InitWith({LiveBatch}, 1..MaxConcurrent, {LoadedCatalog}, {StallingService})

\* the event loop does not stop while a task can run or an invocation can come to
\* its end; every step moves a row or a call forward, so none can be put off for
\* ever
Fairness == WF_vars(Next)

LiveSpec == LiveInit /\ [][Next]_vars /\ Fairness

\* The same product in two rows, one after the other or both at once, against an
\* inference service that answers the vendor fetch with one object, with another
\* one, or with the empty object.
VaryingService ==
    [vendor |-> {"object", "other", "empty object"}, product |-> {"object"},
     taxonomy |-> {"object"}, attribute |-> {"object"}, build |-> {"ok"}]

RaceInit ==
    InitWith({<<RowA, RowA>>}, 1..MaxConcurrent, {LoadedCatalog}, {VaryingService})

RaceSpec == RaceInit /\ [][Next]_vars

(***************************************************************************)
(* The entry points: agent.invoke and handler.lambda_handler.              *)
(***************************************************************************)
required == <<"vendor_name", "vendor_url", "product_name", "product_url">>

\* a validation that would find no column missing
MissingNone(columns) == <<>>

\* agent.py 70-71, handler.py 56-57: missing = [c for c in required if c not in df.columns]
Missing(columns) ==
    LET absent(c) == c \notin columns IN SelectSeq(required, absent)

\* a CSV text is known by what pd.read_csv makes of it: a table (its columns and
\* df.to_dict('records')) or an exception
CsvText(columns, records) ==
    [t |-> "csv", parsed |-> Ok([columns |-> columns,
                                 records |-> [j \in DOMAIN records |->
                                                [c \in columns |-> RowGet(records[j], c)]]])]
BadCsv == [t |-> "csv", parsed |-> Raise("EmptyDataError")]

read_csv(input_csv) == input_csv.parsed

EntryPoints == {"invoke", "lambda_handler"}

\* the tables of the events: all required columns, one more column, and each
\* required column missing in turn, with no row and with one row
EventColumns ==
    {Range(required), Range(required) \cup {"notes"}}
      \cup {Range(required) \ {c} : c \in Range(required)}

EventCsvs ==
    {Absent, PyNone, PyStr(""), BadCsv}
      \cup {CsvText(columns, records) : columns \in EventColumns, records \in Batches(1)}

Events ==
    [entry : EntryPoints, input_csv : EventCsvs, max_concurrent_rows : 1..MaxConcurrent]

\* agent.py 58: effective.get('input_csv', ''); handler.py 37: event.get('input_csv')
InputCsv(event) ==
    IF event.input_csv # Absent THEN event.input_csv
    ELSE IF event.entry = "invoke" THEN PyStr("") ELSE PyNone

ErrorResult(what) == [status |-> "error", error |-> what]

\* agent.py 61-73 and 91-93, handler.py 40-62: the error result of an event that
\* is turned away, None for an event that goes on to process_dataframe_batch
Rejection(event) ==
    IF ~Truthy(InputCsv(event))
    THEN ErrorResult(IF event.entry = "invoke" THEN <<"No input_csv provided">>
                     ELSE <<"Missing input_csv parameter">>)
    ELSE IF ~read_csv(InputCsv(event)).ok
    THEN ErrorResult(IF event.entry = "invoke" THEN <<read_csv(InputCsv(event)).v.e>>
                     ELSE <<"Invalid CSV format: ", read_csv(InputCsv(event)).v.e>>)
    ELSE IF Missing(read_csv(InputCsv(event)).v.columns) # <<>>
    THEN ErrorResult(IF event.entry = "invoke"
                     THEN <<"Missing columns: ", Missing(read_csv(InputCsv(event)).v.columns)>>
                     ELSE <<"Missing required columns: ",
                            Missing(read_csv(InputCsv(event)).v.columns)>>)
    ELSE PyNone

\* no entry point has been called yet: no BatchProcessor, no row
EntryInit ==
    /\ BatchInit({<<>>}, {0}, {LoadedCatalog}, {BatchRepertoire})
    /\ probe = NoProbe
    /\ payload \in Events
    /\ entry_result = Absent

\* agent.py 40-78, handler.py 18-65 and orchestrator.py 149-174, batch_processor.py
\* 20-28 and 54-61: the entry point validates its event and either returns an error
\* result or builds the BatchProcessor and the task of every row
Enter ==
    /\ entry_result = Absent
    /\ ~Constructed
    /\ payload # NoPayload
    /\ \E rejection \in {Rejection(payload)} :
        IF rejection # PyNone
        THEN /\ entry_result' = rejection
             /\ UNCHANGED <<rows, max_concurrent, semaphore, pc, state, calls, results,
                            appended>>
        ELSE \E records \in {read_csv(InputCsv(payload)).v.records} :
             /\ rows' = records
             /\ max_concurrent' = payload.max_concurrent_rows
             /\ semaphore' = payload.max_concurrent_rows
             /\ pc' = [i \in DOMAIN records |-> "queued"]
             /\ state' = [i \in DOMAIN records |-> initial_state(records[i], RowId(i))]
             /\ calls' = [i \in DOMAIN records |-> [m \in Members |-> IdleCall]]
             /\ results' = [i \in DOMAIN records |-> Absent]
             /\ appended' = [i \in DOMAIN records |-> <<>>]
             /\ UNCHANGED entry_result
    /\ UNCHANGED <<catalog, repertoire, llm_semaphore, cache, llm_cache,
                   processed_results, now, probe, payload>>

\* agent.py 80-89, handler.py 67-72: the batch is done; the entry point returns
Reply ==
    /\ entry_result = Absent
    /\ payload # NoPayload
    /\ processed_results.returned
    /\ entry_result' = [status |-> "success", rows_processed |-> Len(Records),
                        output_csv |-> Records]
    /\ UNCHANGED <<pipeline_vars, now, probe, payload>>

EntryNext ==
    \/ Enter
    \/ Reply
    \/ Next

EntrySpec == EntryInit /\ [][EntryNext]_vars

(***************************************************************************)
(* extract_json_from_response on its own.  A response is a sequence of     *)
(* symbols: a prose character "p", a blank, the four brackets, and the two *)
(* fences, each standing at the start of its line.                         *)
(***************************************************************************)
MaxTextLen == 4       \* symbols in a response: 0..MaxTextLen

Symbols == {"p", " ", "{", "}", "[", "]", "fence json", "fence"}

RECURSIVE TextsUpTo(_)
TextsUpTo(n) ==
    IF n = 0 THEN {<<>>}
    ELSE TextsUpTo(n - 1)
            \cup {Append(text, c) : text \in {t \in TextsUpTo(n - 1) : Len(t) = n - 1},
                                    c \in Symbols}

RECURSIVE LStrip(_)
LStrip(text) ==
    IF text # <<>> /\ Head(text) = " " THEN LStrip(Tail(text)) ELSE text

RECURSIVE RStrip(_)
RStrip(text) ==
    IF text # <<>> /\ text[Len(text)] = " "
    THEN RStrip(SubSeq(text, 1, Len(text) - 1)) ELSE text

\* bedrock_client.py 185-186: the first re.sub takes the opening fence (three
\* backticks and json) with the blanks after it, the second the closing fence
RECURSIVE WithoutFences(_)
WithoutFences(text) ==
    IF text = <<>> THEN <<>>
    ELSE IF Head(text) = "fence json" THEN WithoutFences(LStrip(Tail(text)))
    ELSE IF Head(text) = "fence" THEN WithoutFences(Tail(text))
    ELSE <<Head(text)>> \o WithoutFences(Tail(text))

Closer(c) == IF c = "{" THEN "}" ELSE "]"

\* where re.search(r'(\{.*\}|\[.*\])', ..., re.DOTALL) can start a match: at a
\* bracket with its closing bracket anywhere after it
MatchStarts(text) ==
    {i \in DOMAIN text :
        /\ text[i] \in {"{", "["}
        /\ \E j \in DOMAIN text : j > i /\ text[j] = Closer(text[i])}

First(indices) == CHOOSE i \in indices : \A j \in indices : i <= j
Last(indices) == CHOOSE i \in indices : \A j \in indices : i >= j

\* bedrock_client.py 189: the leftmost match; `.*` is greedy, the match ends at the
\* last closing bracket of its kind in the text
GreedyMatch(text) ==
    SubSeq(text, First(MatchStarts(text)),
           Last({j \in DOMAIN text : /\ j > First(MatchStarts(text))
                                      /\ text[j] = Closer(text[First(MatchStarts(text))])}))

\* bedrock_client.py 172-193
extract_json_from_response(response) ==
    IF MatchStarts(WithoutFences(response)) # {}
    THEN GreedyMatch(WithoutFences(response))
    ELSE RStrip(LStrip(WithoutFences(response)))

ExtractInit ==
    /\ BatchInit({<<>>}, {1}, {LoadedCatalog}, {BatchRepertoire})
    /\ probe \in {[response |-> text, returned |-> FALSE, extracted |-> <<>>] :
                    text \in TextsUpTo(MaxTextLen)}
    /\ payload = NoPayload
    /\ entry_result = Absent

\* nodes.py 69: extract_json_from_response(result)
Extract ==
    /\ ~probe.returned
    /\ probe' = [probe EXCEPT !.returned = TRUE,
                               !.extracted = extract_json_from_response(probe.response)]
    /\ UNCHANGED <<pipeline_vars, now, payload, entry_result>>

ExtractSpec == ExtractInit /\ [][Extract]_vars

(***************************************************************************)
(* The gateway's cache on its own: one _set_cache after the other.         *)
(***************************************************************************)
MaxStores == 1101     \* keys ever stored: 1..MaxStores

\* the key of the n-th prompt that is stored
StoreKey(n) == _get_cache_key(Filled(PyInt(n)), PyNone, "sonnet")
Serial(cache_key) == cache_key.md5[Len(cache_key.md5)].n

StoreTexts == {GarbageText, EmptyText}

\* the next prompt nobody has stored yet
Fresh ==
    IF llm_cache = <<>> THEN 1 ELSE Serial(llm_cache[Len(llm_cache)].key) + 1

\* the cache after the first n prompts were stored
Prefilled(n) == [k \in 1..n |-> [key |-> StoreKey(k), result |-> GarbageText]]

\* an empty cache, and a cache that has reached the ceiling
StoreInit ==
    /\ rows = <<>>
    /\ max_concurrent = 1
    /\ catalog = LoadedCatalog
    /\ repertoire = BatchRepertoire
    /\ semaphore = max_concurrent
    /\ llm_semaphore = PoolSize
    /\ pc = <<>>
    /\ state = <<>>
    /\ calls = <<>>
    /\ results = <<>>
    /\ cache = <<>>
    /\ llm_cache \in {Prefilled(0), Prefilled(CacheCeiling)}
    /\ processed_results = [returned |-> FALSE, records |-> <<>>]
    /\ appended = <<>>
    /\ now = 0
    /\ probe = NoProbe
    /\ payload = NoPayload
    /\ entry_result = Absent

\* bedrock_client.py 150: _set_cache of the text of a call that missed
StoreNew ==
    /\ Fresh <= MaxStores
    /\ llm_cache' = _set_cache(llm_cache, StoreKey(Fresh), GarbageText)
    /\ UNCHANGED <<rows, max_concurrent, catalog, repertoire, semaphore, llm_semaphore,
                   pc, state, calls, results, cache, processed_results, appended,
                   now, probe, payload, entry_result>>

\* _set_cache of a key the dict has: the oldest one
StoreAgain(result) ==
    /\ llm_cache # <<>>
    /\ llm_cache' = _set_cache(llm_cache, llm_cache[1].key, result)
    /\ UNCHANGED <<rows, max_concurrent, catalog, repertoire, semaphore, llm_semaphore,
                   pc, state, calls, results, cache, processed_results, appended,
                   now, probe, payload, entry_result>>

StoreNext ==
    \/ StoreNew
    \/ \E result \in StoreTexts : StoreAgain(result)

StoreSpec == StoreInit /\ [][StoreNext]_vars

(***************************************************************************)
(* call_async on its own: calls of any prompt and system prompt, one after *)
(* the other.                                                              *)
(***************************************************************************)
MaxCalls == 2         \* calls of the gateway: 0..MaxCalls

KeyChars == {PyStr("a"), PyStr(":")}
Prompts == {PyChars(c) : c \in SeqsUpTo(KeyChars, 2)}
SystemPrompts ==
    {PyNone, PyChars(<<>>), PyChars(<<PyStr("a")>>), PyChars(<<PyStr("a"), PyStr(":")>>)}

\* the inference service answers every request with a text of its own
AnswerTo(prompt, system_prompt, model) == Text(CallArgs(prompt, system_prompt, model))

GatewayInit ==
    /\ BatchInit({<<>>}, {1}, {LoadedCatalog}, {BatchRepertoire})
    /\ probe = [calls |-> 0, last |-> Absent]
    /\ payload = NoPayload
    /\ entry_result = Absent

\* bedrock_client.py 80-158: a hit returns the cached text; a miss takes a permit,
\* invokes the model, gives the permit back, stores the text and returns it, or
\* returns None when the invocation raises
CallAsync(prompt, system_prompt, model) ==
    /\ probe.calls < MaxCalls
    /\ \E cached \in {_check_cache(llm_cache, _get_cache_key(prompt, system_prompt, model))} :
        IF Truthy(cached)
        THEN /\ llm_cache' = llm_cache
             /\ probe' = [calls |-> probe.calls + 1,
                          last |-> [args |-> CallArgs(prompt, system_prompt, model),
                                    hit |-> TRUE, returned |-> cached]]
        ELSE \E result \in {AnswerTo(prompt, system_prompt, model), NoResult} :
             /\ llm_semaphore > 0
             /\ llm_cache' = CacheAfterInvoke(llm_cache,
                                              _get_cache_key(prompt, system_prompt, model),
                                              result)
             /\ probe' = [calls |-> probe.calls + 1,
                          last |-> [args |-> CallArgs(prompt, system_prompt, model),
                                    hit |-> FALSE, returned |-> result]]
    /\ UNCHANGED <<rows, max_concurrent, catalog, repertoire, semaphore, llm_semaphore,
                   pc, state, calls, results, cache, processed_results, appended,
                   now, payload, entry_result>>

GatewayNext ==
    \E prompt \in Prompts, system_prompt \in SystemPrompts, model \in {"sonnet"} :
        CallAsync(prompt, system_prompt, model)

GatewaySpec == GatewayInit /\ [][GatewayNext]_vars

(***************************************************************************)
(* The semantic cache on its own: set, get and the passing of time.        *)
(***************************************************************************)
MaxClock == 2
MaxTtl == 1

\* values of every kind, among them values Python takes for false
CacheValues == {PyDict("Legal_Vendor_Name" :> PyStr("Okta")), PyList(<<>>)}

\* the keyword arguments of two different stages
CacheParams == {Kwargs(m, initial_state(RowA, RowId(1))) : m \in {"vendor", "product"}}

CacheInit ==
    InitWith({<<>>}, {1}, {LoadedCatalog}, {BatchRepertoire})

\* the parameters of a call whatever their order: its set of <<name, value>> pairs
Params(kwargs) == Range(kwargs)

\* cache_manager.py 55-70: cache.set(value, ttl_seconds, **kwargs)
CacheSet(value, ttl_seconds, kwargs) ==
    /\ cache' = CacheManager_set(cache, value, ttl_seconds, _get_key(kwargs), now)
    /\ probe' = [probe EXCEPT !.sets =
                    (Params(kwargs) :> [value |-> value, ttl_seconds |-> ttl_seconds,
                                        at |-> now, kwargs |-> kwargs])
                        @@ @]
    /\ UNCHANGED <<rows, max_concurrent, catalog, repertoire, semaphore, llm_semaphore,
                   pc, state, calls, results, llm_cache, processed_results, appended,
                   now, payload, entry_result>>

\* cache_manager.py 31-53: cache.get(**kwargs); `since` is the last set of the
\* same parameters
CacheGet(kwargs) ==
    /\ cache' = CacheManager_after_get(cache, _get_key(kwargs), now)
    /\ probe' = [probe EXCEPT !.got =
                    [kwargs |-> kwargs, at |-> now,
                     value |-> CacheManager_get(cache, _get_key(kwargs), now),
                     since |-> IF Params(kwargs) \in DOMAIN probe.sets
                               THEN probe.sets[Params(kwargs)] ELSE Absent]]
    /\ UNCHANGED <<rows, max_concurrent, catalog, repertoire, semaphore, llm_semaphore,
                   pc, state, calls, results, llm_cache, processed_results, appended,
                   now, payload, entry_result>>

\* cache_manager.py 72-77: cache.clear()
CacheClear ==
    /\ cache' = <<>>
    /\ probe' = [probe EXCEPT !.sets = <<>>]
    /\ UNCHANGED <<rows, max_concurrent, catalog, repertoire, semaphore, llm_semaphore,
                   pc, state, calls, results, llm_cache, processed_results, appended,
                   now, payload, entry_result>>

\* a second passes
Tick ==
    /\ now < MaxClock
    /\ now' = now + 1
    /\ UNCHANGED <<pipeline_vars, probe, payload, entry_result>>

CacheNext ==
    \/ \E value \in CacheValues, ttl_seconds \in 1..MaxTtl, kwargs \in CacheParams :
          CacheSet(value, ttl_seconds, kwargs)
    \/ \E kwargs \in CacheParams : CacheGet(kwargs)
    \/ CacheClear
    \/ Tick

CacheSpec == CacheInit /\ [][CacheNext]_vars

\* The keyword arguments of one stage in the order the stage passes them, in the
\* reverse order, and with another value; those of another stage.  No time passes.
Reverse(kwargs) == [n \in DOMAIN kwargs |-> kwargs[Len(kwargs) + 1 - n]]

WithValue(kwargs, name, value) ==
    [n \in DOMAIN kwargs |-> IF kwargs[n][1] = name THEN <<name, value>> ELSE kwargs[n]]

OrderedParams ==
    {Kwargs("vendor", initial_state(RowA, RowId(1))),
     Reverse(Kwargs("vendor", initial_state(RowA, RowId(1)))),
     WithValue(Kwargs("vendor", initial_state(RowA, RowId(1))), "vendor_url",
               PyStr("okta.example")),
     Kwargs("product", initial_state(RowA, RowId(1)))}

KwargsNext ==
    \/ \E value \in CacheValues, ttl_seconds \in 1..MaxTtl, kwargs \in OrderedParams :
          CacheSet(value, ttl_seconds, kwargs)
    \/ \E kwargs \in OrderedParams : CacheGet(kwargs)

KwargsSpec == CacheInit /\ [][KwargsNext]_vars

\* C15: after set(v, ttl, P) with ttl > 0, a get(P) before the expiry time, with no
\* other set(P) and no clear in between, returns exactly v, and a get(P) at or after the expiry
\* time returns None.
C15_GetAfterSet ==
    (probe.got # Absent /\ probe.got.since # Absent) =>
        IF probe.got.at < probe.got.since.at + probe.got.since.ttl_seconds
        THEN probe.got.value = probe.got.since.value
        ELSE probe.got.value = PyNone

\* a get at the very second of expiry missed, and the expired entry is gone
C15_Witness ==
    /\ probe.got # Absent /\ probe.got.since # Absent
    /\ probe.got.since.value = PyList(<<>>)
    /\ probe.got.at = probe.got.since.at + probe.got.since.ttl_seconds
    /\ probe.got.value = PyNone
    /\ _get_key(probe.got.kwargs) \notin DOMAIN cache

(***************************************************************************)
(* The batch scheduler.                                                    *)
(***************************************************************************)
\* process_single_row_with_limit raised: gather holds the exception itself
TaskRaised(i) == pc[i] = "done" /\ IsException(results[i])

\* the graph run raised inside run_pipeline_for_row: format_output_node never
\* set `result`
PipelineRaised(i) ==
    pc[i] = "done" /\ ~IsException(results[i]) /\ state[i].result = Absent

RowRaised(i) == TaskRaised(i) \/ PipelineRaised(i)

\* rows that have entered run_pipeline_for_row and not yet left it
ActiveRows == {i \in RowIndices : pc[i] \in {"fetch", "matching"}}

\* calls that hold a permit of the gateway's semaphore
InFlight == {im \in RowIndices \X Members : calls[im[1]][im[2]].status = "inflight"}

Waiting == {im \in RowIndices \X Members : calls[im[1]][im[2]].status = "waiting"}

\* C1: process_batch returns exactly one record per input row, and the record at
\* position i is the one of input row i: it carries that row's vendor_name and
\* product_name (and its row id, when it has one), whether the row succeeded or
\* failed and in whatever order the rows completed.
C1_RecordsInInputOrder ==
    processed_results.returned =>
        /\ Len(Records) = Len(rows)
        /\ \A i \in RowIndices :
            /\ Records[i].vendor_name = rows[i].vendor_name
            /\ Records[i].product_name = rows[i].product_name
            /\ "row_id" \in DOMAIN Records[i] => Records[i].row_id = RowId(i)

\* two different rows, the first failed and the second succeeded
C1_Witness ==
    /\ processed_results.returned
    /\ Len(rows) = 2
    /\ rows[1] # rows[2]
    /\ "error" \in DOMAIN Records[1]
    /\ "errors" \in DOMAIN Records[2]

C3_RowConcurrencyBounded ==
    /\ Cardinality(ActiveRows) <= max_concurrent
    /\ semaphore = max_concurrent - Cardinality(ActiveRows)

\* the gate is full and a row waits at it
C3_Witness ==
    /\ Cardinality(ActiveRows) = max_concurrent
    /\ \E i \in RowIndices : pc[i] = "queued"

\* C4: at most PoolSize invocations of the inference service are in flight through
\* the gateway, over all rows and stages.
C4_InferenceCallsBounded ==
    /\ Cardinality(InFlight) <= PoolSize
    /\ llm_semaphore = PoolSize - Cardinality(InFlight)

\* the pool is full, calls of two rows are at the gateway and one of them waits
C4_Witness ==
    /\ Cardinality(InFlight) = PoolSize
    /\ \E a \in InFlight, b \in Waiting : a[1] # b[1]

(***************************************************************************)
(* Stage failures in a batch.                                              *)
(***************************************************************************)
\* call_async returned None to the stage
GotNoResult(i, m) == calls[i][m].status = "done" /\ calls[i][m].got = NoResult

\* the stage had a JSON object: from the gateway, or its own earlier result from
\* the semantic cache
GotObject(i, m) ==
    /\ calls[i][m].status = "done"
    /\ \/ calls[i][m].got = NotCalled
       \/ /\ calls[i][m].got.t = "text"
          /\ ParseJson(calls[i][m].got).ok
          /\ ParseJson(calls[i][m].got).v.t = "dict"

\* the gateway had no result for the vendor fetch of row i and a JSON object for
\* every other call of the batch
OnlyVendorFetchFailed(i) ==
    /\ GotNoResult(i, "vendor")
    /\ \A j \in RowIndices, m \in Members : <<j, m>> # <<i, "vendor">> => GotObject(j, m)

VendorFields(rec) ==
    {rec.legal_vendor_name, rec.official_vendor_website, rec.acquiring_company,
     rec.wikipedia_link, rec.linkedin_profile, rec.founded_year}

ProductFields(rec) ==
    {rec.product_type, rec.product_users, rec.product_tasks, rec.product_features}

\* C5: when the gateway has no result for one row's vendor fetch and a JSON object
\* for every other call, that row's record has `errors` other than "None", its six
\* vendor fields "N/A" and its product fields populated; every other row's record
\* has errors "None" and its vendor and product fields populated from its own row.
C5_VendorFailureStaysInItsRow ==
    processed_results.returned =>
        \A i \in RowIndices :
            OnlyVendorFetchFailed(i) =>
                /\ Records[i].errors # <<"None">>
                /\ VendorFields(Records[i]) = {NA}
                /\ NA \notin ProductFields(Records[i])
                /\ Records[i].product_name = rows[i].product_name
                /\ \A j \in RowIndices \ {i} :
                    /\ Records[j].errors = <<"None">>
                    /\ Records[j].legal_vendor_name = rows[j].vendor_name
                    /\ Records[j].official_vendor_website = rows[j].vendor_url
                    /\ NA \notin VendorFields(Records[j]) \cup ProductFields(Records[j])

\* a batch of two rows returned, one of them with its vendor fetch failed
C5_Witness ==
    /\ processed_results.returned
    /\ Len(rows) = 2
    /\ \E i \in RowIndices : OnlyVendorFetchFailed(i)

(***************************************************************************)
(* Validation of the labels.                                               *)
(***************************************************************************)
\* a formatted output record
Formatted(i) == "errors" \in DOMAIN results[i]

\* the stage of row i took its result from the semantic cache
ServedFromCache(i, m) ==
    /\ calls[i][m].status = "done"
    /\ calls[i][m].got = NotCalled
    /\ ~CatalogEmpty(m, catalog)

\* C6: in every formatted record the two taxonomy fields are "N/A" or entries of
\* the taxonomy list and the three attribute fields are "N/A" or entries of the
\* attribute list, whatever the inference service returned and also when the
\* stage took its result from the semantic cache.
C6_LabelsFromCatalog ==
    \A i \in RowIndices :
        Formatted(i) =>
            /\ {results[i].taxonomy_match_1, results[i].taxonomy_match_2}
                  \subseteq Range(get_taxonomy_list(catalog)) \cup {NA}
            /\ {results[i].attribute_1, results[i].attribute_2, results[i].attribute_3}
                  \subseteq Range(get_product_attributes_list(catalog)) \cup {NA}

\* the second row has its labels from the semantic cache, the first row's
\* taxonomy label was corrected to a catalog entry and its second one was dropped
C6_Witness ==
    /\ Len(rows) = 2
    /\ Formatted(2)
    /\ ServedFromCache(2, "taxonomy")
    /\ ServedFromCache(2, "attribute")
    /\ calls[1]["taxonomy"].got.t = "text"
    /\ ParseJson(calls[1]["taxonomy"].got) = Ok(TaxonomyJson(PyChars(<<"a">>), PyChars(<<"a", "a">>)))
    /\ results[2].taxonomy_match_1 = TaxonomyCatalog[1]
    /\ results[2].taxonomy_match_2 = NA

\* the label the response holds under `key`, when it holds a string other than
\* "" there
ReturnedLabel(response, key) ==
    IF /\ response.t = "text"
       /\ ParseJson(response).ok
       /\ ParseJson(response).v.t = "dict"
       /\ key \in DOMAIN ParseJson(response).v.d
       /\ ParseJson(response).v.d[key].t = "chars"
       /\ ParseJson(response).v.d[key].c # <<>>
    THEN ParseJson(response).v.d[key]
    ELSE Absent

TaxonomyKeys == <<"match_1", "match_2">>

\* the k-th label of the list the taxonomy stage returned
TaxonomyOut(i, k) ==
    calls[i]["taxonomy"].update["taxonomy_matches"].items[k].d["Taxonomy Name"]

\* C7: in taxonomy matching a returned label (a string other than "") that is an exact member of the
\* taxonomy list is kept; otherwise it is replaced by the first entry of the list,
\* in list order, that contains it or is contained in it, case-insensitively; with
\* no such entry it is replaced by "N/A".
C7_TaxonomyLabelPolicy ==
    \A i \in RowIndices, k \in 1..2 :
        \A label \in {ReturnedLabel(calls[i]["taxonomy"].got, TaxonomyKeys[k])} \ {Absent} :
            calls[i]["taxonomy"].status = "done" =>
                TaxonomyOut(i, k) =
                    IF label \in Range(get_taxonomy_list(catalog)) THEN label
                    ELSE IF FuzzyHits(label, get_taxonomy_list(catalog)) # {}
                    THEN get_taxonomy_list(catalog)[
                            Min(FuzzyHits(label, get_taxonomy_list(catalog)))]
                    ELSE NA

\* the label the response holds under `key` / "Attribute Name", when it holds a
\* string other than "" there
ReturnedAttribute(response, key) ==
    IF /\ response.t = "text"
       /\ ParseJson(response).ok
       /\ ParseJson(response).v.t = "dict"
       /\ key \in DOMAIN ParseJson(response).v.d
       /\ ParseJson(response).v.d[key].t = "dict"
       /\ "Attribute Name" \in DOMAIN ParseJson(response).v.d[key].d
       /\ ParseJson(response).v.d[key].d["Attribute Name"].t = "chars"
       /\ ParseJson(response).v.d[key].d["Attribute Name"].c # <<>>
    THEN ParseJson(response).v.d[key].d["Attribute Name"]
    ELSE Absent

AttributeKeys == <<"Top_Attribute_1", "Top_Attribute_2", "Top_Attribute_3">>

\* the k-th label of the list the attribute stage returned
AttributeOut(i, k) ==
    calls[i]["attribute"].update["attribute_matches"].items[k].d["Attribute Name"]

C9_ErrorsKeepEveryMessage ==
    \A i \in RowIndices :
        Formatted(i) => results[i].errors = ErrorsColumn(appended[i])

\* C10: each of the four stages that call the inference service, when call_async
\* returns no result or a text that does not parse as JSON, appends a message to
\* `errors`, sets its output field to None or to the "N/A" list, and returns.
C10_EveryStageReportsFailure ==
    \A i \in RowIndices, m \in Members :
        (/\ calls[i][m].status = "done"
         /\ \/ calls[i][m].got = NoResult
            \/ calls[i][m].got.t = "text" /\ ~ParseJson(calls[i][m].got).ok) =>
            /\ "errors" \in DOMAIN calls[i][m].update
            /\ calls[i][m].update["errors"] # <<>>
            /\ calls[i][m].update[OutputField(m)] \in {PyNone, TaxonomyNA, AttributeNA}

(***************************************************************************)
(* Fetch responses that are JSON but no object.                            *)
(***************************************************************************)
\* the Row State format_output_node is called with: the join of the matching fan-out
AtFormatOutput(i) == ApplyUpdate(state[i], MergeMatching(calls[i]))

\* C11: format_output never fails: for every Row State reachable at its entry,
\* whatever a fetch stage stored in vendor_details and product_details, it returns
\* a record with all output columns.
C11_FormatOutputNeverFails ==
    \A i \in RowIndices :
        (pc[i] = "matching" /\ AllDone(calls[i], MatchingMembers)) =>
            format_output_node(AtFormatOutput(i)).ok

\* C12: whatever text the gateway returns to the vendor fetch or the product fetch,
\* also a text that is JSON but no object, no exception escapes a stage: the row
\* ends with a formatted record and not with an error record.
C12_AnyFetchTextGivesFormattedRecord ==
    \A i \in RowIndices :
        pc[i] = "done" => ~RowRaised(i) /\ Formatted(i)

(***************************************************************************)
(* The empty catalog.                                                      *)
(***************************************************************************)
\* the fetch stage of row i stored a JSON value that is no object
StoredNonObject(i, m) ==
    /\ calls[i][m].status = "done"
    /\ calls[i][m].update[OutputField(m)].t \notin {"dict", "None"}

MatchColumns(rec) ==
    <<rec.taxonomy_match_1, rec.taxonomy_match_2,
      rec.attribute_1, rec.attribute_2, rec.attribute_3>>

Returned(i, m) ==
    calls[i][m].status = "done" /\ OutputField(m) \in DOMAIN calls[i][m].update

StageRank(p) ==
    CASE p = "queued" -> 0 [] p = "fetch" -> 1 [] p = "matching" -> 2 [] p = "done" -> 3

CallRank(status) ==
    CASE status = "idle" -> 0 [] status = "waiting" -> 1
      [] status = "inflight" -> 2 [] status = "hung" -> 3 [] status = "done" -> 4

\* where each stage of row i stands, given where the row stands
StagesInOrder(i) ==
    /\ pc[i] = "queued" => \A m \in Members : calls[i][m].status = "idle"
    /\ pc[i] = "fetch" =>
          /\ \A m \in {"vendor", "product"} : calls[i][m].status # "idle"
          /\ \A m \in {"taxonomy", "attribute"} : calls[i][m].status = "idle"
          /\ state[i].software_type = Absent
    /\ pc[i] = "matching" =>
          /\ \A m \in {"vendor", "product"} : Returned(i, m)
          /\ state[i].software_type # Absent
          /\ \A m \in {"taxonomy", "attribute"} : calls[i][m].status # "idle"
          /\ state[i].result = Absent
    /\ Formatted(i) =>
          /\ \A m \in Members : Returned(i, m)
          /\ state[i].software_type # Absent
          /\ state[i].platform_matches # Absent
    /\ PipelineRaised(i) => \A m \in {"vendor", "product"} : Returned(i, m)

\* a step moves a row forward and a call forward, and leaves a returned stage alone
StagesOnce(i) ==
    /\ StageRank(pc'[i]) >= StageRank(pc[i])
    /\ \A m \in Members :
          /\ CallRank(calls'[i][m].status) >= CallRank(calls[i][m].status)
          /\ calls[i][m].status = "done" => calls'[i][m] = calls[i][m]
    /\ state[i].software_type # Absent => state'[i].software_type = state[i].software_type
    /\ state[i].result # Absent => state'[i] = state[i]

\* C14: within a row the stages run in the order fetch fan-out,
\* extract_software_type, matching fan-out, format_output, each once:
\* extract_software_type runs when both fetch stages have returned, with a result
\* or a failure, format_output when the taxonomy, attribute and platform matching
\* have returned, and no returned stage runs again.
C14_StagesInOrderOnce ==
    /\ [](\A i \in RowIndices : StagesInOrder(i))
    /\ [][\A i \in RowIndices : StagesOnce(i)]_vars

\* the vendor fetch failed, the product fetch returned its object all the same, and
\* the row went on to the matching fan-out
C14_Witness ==
    \E i \in RowIndices :
        /\ pc[i] = "matching"
        /\ GotNoResult(i, "vendor")
        /\ GotObject(i, "product") /\ calls[i]["product"].got # NotCalled
        /\ calls[i]["vendor"].update["vendor_details"] = PyNone
        /\ calls[i]["product"].update["product_details"].t = "dict"

(***************************************************************************)
(* The gateway: its cache and its permits.                                 *)
(***************************************************************************)
\* in this step the stage of row i calls call_async: the stage starts, its catalog
\* is not empty and the semantic cache has nothing for it
CallsGateway(i, m) ==
    /\ calls[i][m].status = "idle"
    /\ calls'[i][m].status # "idle"
    /\ ~CatalogEmpty(m, catalog)
    /\ ~Truthy(CacheManager_get(cache, SemanticKey(m, state'[i]), now))

\* the text the gateway's cache holds for the call of the stage
HeldText(i, m) == _check_cache(llm_cache, PromptKey(m, state'[i], catalog))

ReturnedFromCache(i, m) ==
    /\ calls'[i][m].status = "done"
    /\ calls'[i][m].got = HeldText(i, m)
    /\ ~calls'[i][m].slot
    /\ llm_semaphore' = llm_semaphore - Cardinality({k \in Members : calls'[i][k].slot
                                                        /\ ~calls[i][k].slot})

\* C16: when call_async is called and the gateway's cache holds a text for the
\* call's key, that text is returned at once: the call takes no permit and the
\* inference service is not invoked, also when every permit is held.
C16_CachedTextTakesNoSlot ==
    [][\A i \in RowIndices, m \in Members :
          (CallsGateway(i, m) /\ HeldText(i, m) # PyNone) => ReturnedFromCache(i, m)]_vars

\* in this step invoke_model, or the decoding of its response, raised
InvocationFails(i, m) ==
    /\ calls[i][m].status = "inflight"
    /\ calls'[i][m].status = "done"
    /\ calls'[i][m].got = NoResult

\* C17: when the invocation of the inference service or the decoding of its
\* response fails, call_async returns None and raises nothing: the stage returns
\* and its row goes on, the gateway's cache is as it was, and the permit is given
\* back, so that the free permits are again all but those of the calls in flight.
C17_FailedCallLeavesNoTrace ==
    [][\A i \in RowIndices, m \in Members :
          InvocationFails(i, m) =>
              /\ llm_cache' = llm_cache
              /\ llm_semaphore' = llm_semaphore + 1
              /\ llm_semaphore' = PoolSize - Cardinality(InFlight)'
              /\ pc'[i] = pc[i]
              /\ results'[i] = Absent
              /\ OutputField(m) \in DOMAIN calls'[i][m].update]_vars

\* a call failed after holding the only permit: the permit is free again and the
\* gateway's cache has nothing for its key
C17_Witness ==
    \E i \in RowIndices :
        /\ calls[i]["product"].status = "done"
        /\ calls[i]["product"].got = NoResult
        /\ calls[i]["product"].slot
        /\ PromptKey("product", state[i], catalog) \notin CachedKeys(llm_cache)
        /\ llm_semaphore = PoolSize
        /\ pc[i] = "fetch"

(***************************************************************************)
(* Validation at the entry points.                                         *)
(***************************************************************************)
\* the event has no CSV body or an empty one
NoCsvBody(event) == event.input_csv \in {Absent, PyNone, PyStr("")}

\* the event's CSV is a table that lacks a required column
LacksColumn(event) ==
    /\ ~NoCsvBody(event)
    /\ read_csv(event.input_csv).ok
    /\ \E c \in Range(required) : c \notin read_csv(event.input_csv).v.columns

C19_EveryRecordCarriesRowId ==
    processed_results.returned =>
        \A i \in RowIndices :
            /\ "row_id" \in DOMAIN Records[i]
            /\ Records[i].row_id = RowId(i)

(***************************************************************************)
(* The Row State belongs to one row.                                       *)
(***************************************************************************)
\* the messages the stages of row j have cause to append, by what call_async
\* handed to its fetch stages and by the product details they left
OwnMessages(j) ==
    {ErrNoResult(m) : m \in {k \in {"vendor", "product"} :
        calls[j][k].status = "done" /\ calls[j][k].got # NotCalled
            /\ ~Truthy(calls[j][k].got)}}
      \cup {ErrException(m) : m \in {k \in {"vendor", "product"} :
        calls[j][k].status = "done" /\ Truthy(calls[j][k].got)
            /\ calls[j][k].got # NotCalled /\ ~ParseJson(calls[j][k].got).ok}}
      \cup (IF /\ calls[j]["product"].status = "done"
               /\ ~Truthy(calls[j]["product"].update["product_details"])
            THEN {"No product details available"} ELSE {})

\* a step that writes the Row State of row j is a step of row j and of no other row
WritesOwnStateOnly(j) ==
    state'[j] # state[j] =>
        /\ pc'[j] # pc[j]
        /\ \A k \in RowIndices \ {j} :
              /\ state'[k] = state[k]
              /\ calls'[k] = calls[k]
              /\ pc'[k] = pc[k]
              /\ results'[k] = results[k]

\* C20: the Row State of a row is its own under every interleaving of the rows:
\* every message in a row's `errors`, in its state and in its record, was appended
\* by a stage of that row, and a stage of one row never writes a field of another
\* row's state.
C20_RowStateIsPrivate ==
    /\ [](\A j \in RowIndices :
            /\ Range(state[j].errors) \subseteq OwnMessages(j)
            /\ state[j].row_id = RowId(j)
            /\ (Formatted(j) /\ OwnMessages(j) = {}) => results[j].errors = <<"None">>)
    /\ [][\A j \in RowIndices : WritesOwnStateOnly(j)]_vars

\* two rows were in their matching fan-out together, one with the message of its
\* failed vendor fetch and the other with no message
C20_Witness ==
    /\ Len(rows) = 2
    /\ pc[1] = "matching" /\ pc[2] = "matching"
    /\ GotNoResult(1, "vendor")
    /\ state[1].errors = <<"Vendor info fetch failed">>
    /\ GotObject(2, "vendor")
    /\ state[2].errors = <<>>

(***************************************************************************)
(* Progress through the two gates.                                         *)
(***************************************************************************)
\* calls that hold a permit of the gateway's semaphore, returning or not
Holding ==
    {im \in RowIndices \X Members : calls[im[1]][im[2]].status \in {"inflight", "hung"}}

Hung == {im \in RowIndices \X Members : calls[im[1]][im[2]].status = "hung"}

\* process_batch has returned a record for every row and both gates are full again
BatchDone ==
    /\ processed_results.returned
    /\ Len(Records) = Len(rows)
    /\ \A i \in RowIndices : pc[i] = "done" /\ results[i] # Absent
    /\ semaphore = max_concurrent
    /\ llm_semaphore = PoolSize

\* C21: whatever max_concurrent and the pool size, also with more calls wanted
\* than the pool has permits: if every invocation of the inference service comes
\* back, with a text or a failure, then every row gets its record, process_batch
\* returns and both semaphores are back at all their permits, for good.
C21_BatchCompletes ==
    [](Hung = {}) => <>[]BatchDone

\* two rows were in the pipeline at once, wanting four calls of a pool of fewer
\* permits: calls waited for a permit, and the batch is done
C21_Witness ==
    /\ BatchDone
    /\ Hung = {}
    /\ max_concurrent = Len(rows)
    /\ Len(rows) * Cardinality({"vendor", "product"}) > PoolSize
    /\ \A i \in RowIndices : Formatted(i) /\ calls[i]["product"].slot

\* the row of a call that never returns has no record and holds its permits
StalledForGood(i, m) ==
    calls[i][m].got = Never =>
        /\ calls[i][m].status = "hung"
        /\ calls[i][m].slot
        /\ <<i, m>> \in Holding
        /\ llm_semaphore = PoolSize - Cardinality(Holding)
        /\ pc[i] \in {"fetch", "matching"}
        /\ results[i] = Absent
        /\ semaphore = max_concurrent - Cardinality(ActiveRows)
        /\ ~processed_results.returned

\* every call of row j has returned or holds a permit of its own, and none is hung
NeedsNoPermit(j) ==
    /\ j \in RowIndices
    /\ pc[j] = "matching"
    /\ \A m \in Members : calls[j][m].status \in {"done", "inflight"}
    /\ \E i \in RowIndices \ {j} : \E m \in Members : calls[i][m].status = "hung"

\* C22: there is no timeout on a call.  A call whose invocation never returns
\* keeps its permit of the gateway's semaphore for good; its row never gets a
\* record and keeps its permit of the row semaphore, and process_batch never
\* returns.  A row that needs no further permit still comes to its end.
C22_HungCallStallsItsRow ==
    /\ [](\A i \in RowIndices, m \in Members : StalledForGood(i, m))
    /\ [][\A i \in RowIndices, m \in Members :
            calls[i][m].status = "hung" => calls'[i][m] = calls[i][m]]_vars
    /\ \A j \in DOMAIN LiveBatch :
            NeedsNoPermit(j) ~>
                (pc[j] = "done" \/ \E m \in Members : calls[j][m].status = "hung")

\* the vendor call of the second row never returns and holds a permit; the first
\* row has its formatted record all the same, and the batch has not returned
C22_Witness ==
    /\ Len(rows) = 2
    /\ calls[2]["vendor"].status = "hung"
    /\ pc[2] = "fetch"
    /\ llm_semaphore = PoolSize - 1
    /\ Formatted(1)
    /\ ~processed_results.returned

(***************************************************************************)
(* Rows that share a key of the semantic cache.                            *)
(***************************************************************************)
\* in this step the call of the stage returned a text that parses
ReturnsParsed(i, m) ==
    /\ calls[i][m].status = "inflight"
    /\ calls'[i][m].status = "done"
    /\ calls'[i][m].got # NoResult
    /\ ParseJson(calls'[i][m].got).ok

\* both rows missed the semantic cache and the gateway's cache for the stage and
\* each has its own call pending
BothPending(i, j, m) ==
    /\ i # j
    /\ SemanticKey(m, state[i]) = SemanticKey(m, state[j])
    /\ calls[i][m].status \in {"waiting", "inflight"}
    /\ calls[j][m].status \in {"waiting", "inflight"}

\* C23: when two rows run the same fetch stage with the same semantic-cache
\* parameters and both read the cache before either has written it, both miss and
\* each issues its own gateway call; each call that returns writes the cache, over
\* whatever entry is there, and hands its row the result parsed from its own
\* response: the entry left is the one written last.
C23_RacingRowsLastWriteWins ==
    /\ [](\A i \in RowIndices, j \in RowIndices, m \in {"vendor", "product"} :
            BothPending(i, j, m) =>
                /\ SemanticKey(m, state[i]) \notin DOMAIN cache
                /\ PromptKey(m, state[i], catalog) \notin CachedKeys(llm_cache))
    /\ [][\A i \in RowIndices, m \in {"vendor", "product"} :
            ReturnsParsed(i, m) =>
                /\ calls'[i][m].update = (OutputField(m) :> ParseJson(calls'[i][m].got).v)
                /\ SemanticKey(m, state[i]) \in DOMAIN cache'
                /\ cache'[SemanticKey(m, state[i])].value = ParseJson(calls'[i][m].got).v
                /\ \A k \in DOMAIN cache \ {SemanticKey(m, state[i])} :
                      k \in DOMAIN cache' /\ cache'[k] = cache[k]
                /\ pc'[i] = pc[i] /\ results'[i] = Absent]_vars

\* both rows made their own vendor call and got different objects; each row has its
\* own, and the cache has that of the second row, which wrote last
C23_Witness ==
    /\ Len(rows) = 2
    /\ calls[1]["vendor"].status = "done" /\ calls[1]["vendor"].slot
    /\ calls[2]["vendor"].status = "done" /\ calls[2]["vendor"].slot
    /\ calls[1]["vendor"].update["vendor_details"] = ParseJson(calls[1]["vendor"].got).v
    /\ calls[2]["vendor"].update["vendor_details"] = ParseJson(calls[2]["vendor"].got).v
    /\ calls[1]["vendor"].update["vendor_details"]
          # calls[2]["vendor"].update["vendor_details"]
    /\ calls[2]["vendor"].update["vendor_details"].d # <<>>
    /\ SemanticKey("vendor", state[1]) \in DOMAIN cache
    /\ cache[SemanticKey("vendor", state[1])].value
          = calls[2]["vendor"].update["vendor_details"]

\* in this step the stage of row j starts while the semantic cache holds a live
\* entry for its parameters
StartsWithEntry(j, m) ==
    /\ calls[j][m].status = "idle"
    /\ calls'[j][m].status # "idle"
    /\ ~CatalogEmpty(m, catalog)
    /\ SemanticKey(m, state'[j]) \in DOMAIN cache
    /\ Live(cache[SemanticKey(m, state'[j])], now)

\* C24: once a stage has succeeded for semantic-cache parameters P, every later
\* run of the stage with P before the entry expires returns the cached structured
\* result, whatever it is, and makes no gateway call.
C24_CachedResultShortCircuits ==
    [][\A j \in RowIndices, m \in Members :
          StartsWithEntry(j, m) =>
              /\ calls'[j][m].status = "done"
              /\ calls'[j][m].got = NotCalled
              /\ calls'[j][m].update
                    = (OutputField(m) :> cache[SemanticKey(m, state'[j])].value)]_vars

(***************************************************************************)
(* The size of the gateway's cache.                                        *)
(***************************************************************************)
\* the keys of the cache by the order in which StoreSpec first stored them
Serials(stored) == {Serial(stored[n].key) : n \in DOMAIN stored}

\* the keys this step removed
Removed == Serials(llm_cache) \ Serials(llm_cache')

\* C25: after every _set_cache the gateway's cache holds at most 1000 entries; the
\* store of a new key that brings the size to 1001 removes exactly the 100 keys
\* inserted earliest and leaves 901, the new key among them; no other store
\* removes a key.
C25_CacheCeiling ==
    /\ [](Len(llm_cache) <= 1000 /\ Cardinality(Serials(llm_cache)) = Len(llm_cache))
    /\ [][/\ Fresh \in Serials(llm_cache') \/ Serials(llm_cache') = Serials(llm_cache)
          /\ IF Len(llm_cache) = 1000 /\ Serials(llm_cache') # Serials(llm_cache)
             THEN /\ Len(llm_cache') = 901
                  /\ Cardinality(Removed) = 100
                  /\ \A old \in Removed, kept \in Serials(llm_cache') : old < kept
             ELSE Removed = {}]_vars

\* the 1001st key has been stored: the keys 101 to 1001 are left
C25_Witness ==
    /\ Len(llm_cache) = 901
    /\ Serial(llm_cache[1].key) = 101
    /\ Serial(llm_cache[901].key) = 1001

(***************************************************************************)
(* What extract_json_from_response returns.                                *)
(***************************************************************************)
\* where the bracket group that opens at i closes: 0 when it does not close, or when
\* a bracket inside it closes the wrong way
RECURSIVE Scan(_, _, _)
Scan(text, i, open) ==
    IF i > Len(text) THEN 0
    ELSE IF text[i] \in {"{", "["} THEN Scan(text, i + 1, <<Closer(text[i])>> \o open)
    ELSE IF text[i] \in {"}", "]"}
         THEN IF open = <<>> \/ Head(open) # text[i] THEN 0
              ELSE IF Len(open) = 1 THEN i
              ELSE Scan(text, i + 1, Tail(open))
    ELSE IF text[i] \in {"fence json", "fence"} THEN 0
    ELSE Scan(text, i + 1, open)

\* one balanced object or array and nothing else: what json.loads accepts
IsJson(text) ==
    /\ text # <<>>
    /\ text[1] \in {"{", "["}
    /\ Scan(text, 1, <<>>) = Len(text)

\* leading prose, perhaps an opening fence, one object or array from i to j, perhaps
\* a closing fence, then prose that may hold further brackets
Shaped(text, i, j) ==
    /\ i \in DOMAIN text /\ j \in DOMAIN text /\ i < j
    /\ IsJson(SubSeq(text, i, j))
    /\ \A n \in 1..(i - 1) : text[n] \in {"p", " "} \/ (n = i - 1 /\ text[n] = "fence json")
    /\ \A n \in (j + 1)..Len(text) :
          text[n] \notin {"fence json", "fence"} \/ (n = j + 1 /\ text[n] = "fence")

\* C26: for a response made of leading prose, perhaps a code fence, one JSON object
\* or array, and trailing prose that may hold further brackets,
\* extract_json_from_response returns exactly that first object or array, and
\* what it returns parses as JSON.
C26_ExtractsFirstValue ==
    probe.returned =>
        \A i \in DOMAIN probe.response, j \in DOMAIN probe.response :
            Shaped(probe.response, i, j) =>
                /\ probe.extracted = SubSeq(probe.response, i, j)
                /\ IsJson(probe.extracted)

(***************************************************************************)
(* Whose text a hit of the gateway's cache returns.                        *)
(***************************************************************************)
\* C27: a hit of the gateway's cache returns only text that an earlier call with
\* the same (model, system_prompt, prompt) stored: calls whose triples differ never
\* address the same key.
C27_HitReturnsOwnText ==
    (probe.last # Absent /\ probe.last.hit) =>
        probe.last.returned
            = AnswerTo(probe.last.args.prompt, probe.last.args.system_prompt,
                       probe.last.args.model)

(***************************************************************************)
(* No retry.                                                               *)
(***************************************************************************)
\* the stages of row i for which call_async was called
Called(i) == {m \in Members : calls[i][m].got # NotCalled}

\* C28: the pipeline of a row calls the gateway at most once for each stage, four
\* times at most; a stage whose call failed or returned a malformed response does
\* not run again, and a row that failed is not run again.
C28_NoRetry ==
    /\ [](\A i \in RowIndices : Cardinality(Called(i)) <= 4)
    /\ [][\A i \in RowIndices :
            /\ \A m \in Members :
                  /\ calls[i][m].status # "idle" => calls'[i][m].status # "idle"
                  /\ calls[i][m].got # NotCalled => calls'[i][m].got = calls[i][m].got
                  /\ calls[i][m].status = "done" => calls'[i][m] = calls[i][m]
            /\ pc[i] = "done" =>
                  /\ pc'[i] = "done"
                  /\ calls'[i] = calls[i]
                  /\ results'[i] = results[i]]_vars

\* a row is over: its vendor call failed, its product call returned garbage, and
\* neither was made again; a row whose pipeline raised after its calls is over too
C28_Witness ==
    /\ \E i \in RowIndices :
          /\ pc[i] = "done"
          /\ calls[i]["vendor"].status = "done" /\ calls[i]["vendor"].got = NoResult
          /\ calls[i]["product"].status = "done" /\ calls[i]["product"].got = GarbageText
          /\ calls[i]["vendor"].slot /\ calls[i]["product"].slot
    /\ \E j \in RowIndices : RowRaised(j) /\ Called(j) # {}

(***************************************************************************)
(* What the operations of the semantic cache remove, and its keys.         *)
(***************************************************************************)
\* this step is a get, of the parameters kwargs
IsGet(kwargs) == probe'.got # probe.got /\ probe'.got.kwargs = kwargs

\* this step is a clear
IsClear == cache' = <<>> /\ probe'.sets = <<>>

\* this step is a set that stores the entry of key k
IsSetOf(k) ==
    \E kwargs \in CacheParams :
        /\ _get_key(kwargs) = k
        /\ Params(kwargs) \in DOMAIN probe'.sets
        /\ probe'.sets[Params(kwargs)].at = now
        /\ k \in DOMAIN cache'
        /\ cache'[k].value = probe'.sets[Params(kwargs)].value
        /\ cache'[k].created_at = now

\* C29: get(P) on an expired entry removes that entry and no other and reports a
\* miss; a get leaves every entry of another key as it is; an entry, expired or
\* not, goes only at a get of its own key after its expiry or at a clear, and
\* changes only at a set of its key.
C29_OnlyOwnGetRemovesExpired ==
    [][/\ \A kwargs \in CacheParams :
            IsGet(kwargs) =>
                /\ \A k \in DOMAIN cache \ {_get_key(kwargs)} :
                      k \in DOMAIN cache' /\ cache'[k] = cache[k]
                /\ DOMAIN cache' \subseteq DOMAIN cache
                /\ (_get_key(kwargs) \in DOMAIN cache /\ ~Live(cache[_get_key(kwargs)], now))
                      => /\ _get_key(kwargs) \notin DOMAIN cache'
                         /\ probe'.got.value = PyNone
                /\ (_get_key(kwargs) \in DOMAIN cache /\ Live(cache[_get_key(kwargs)], now))
                      => cache' = cache
       /\ \A k \in DOMAIN cache :
            /\ k \notin DOMAIN cache' =>
                  \/ IsClear
                  \/ \E kwargs \in CacheParams :
                        IsGet(kwargs) /\ _get_key(kwargs) = k /\ ~Live(cache[k], now)
            /\ (k \in DOMAIN cache' /\ cache'[k] # cache[k]) => IsSetOf(k)]_vars

\* a get has just removed the expired entry of its key; the entry of the other
\* key, expired as well, is still there
C29_Witness ==
    /\ probe.got # Absent /\ probe.got.since # Absent
    /\ probe.got.at >= probe.got.since.at + probe.got.since.ttl_seconds
    /\ probe.got.value = PyNone
    /\ _get_key(probe.got.kwargs) \notin DOMAIN cache
    /\ \E k \in DOMAIN cache : ~Live(cache[k], now)

\* C30: the key of the semantic cache depends on the set of (name, value) pairs
\* only, not on the order in which they are passed: a get finds what the last set
\* of the same pairs stored, in whatever order each passed them, and finds
\* nothing when no set passed the same names with the same values.
C30_KeyIgnoresOrder ==
    probe.got # Absent =>
        /\ probe.got.since # Absent =>
              /\ probe.got.value = probe.got.since.value
              /\ Params(probe.got.kwargs) = Params(probe.got.since.kwargs)
        /\ probe.got.since = Absent => probe.got.value = PyNone

\* a get found the value that a set stored with the same parameters in another
\* order, while the entry of the same names with another value is in the cache too
C30_Witness ==
    /\ probe.got # Absent /\ probe.got.since # Absent
    /\ probe.got.kwargs # probe.got.since.kwargs
    /\ probe.got.value = probe.got.since.value
    /\ Truthy(probe.got.value)
    /\ \E k \in DOMAIN cache :
          k # _get_key(probe.got.kwargs) /\ cache[k].value # probe.got.value


(***************************************************************************)
(* C31: within one row's pipeline the Row State fills up monotonically: a  *)
(* stage field that has been set is never unset or overwritten by a later  *)
(* step, the input fields never change, and `result` changes only in the   *)
(* step that runs format_output_node, to the value that node returns.      *)
(***************************************************************************)
KeepsWhatIsSet(i) ==
    \A f \in StageFields : state[i][f] # Absent => state'[i][f] = state[i][f]

KeepsInput(i) == \A f \in InputFields : state'[i][f] = state[i][f]

ResultOnlyByFormatOutput(i) ==
    state'[i].result # state[i].result =>
        /\ pc[i] = "matching" /\ pc'[i] = "done"
        /\ format_output_node(state'[i]).ok
        /\ state'[i].result = format_output_node(state'[i]).v["result"]

C31_StateFillsMonotonically ==
    [][\A i \in RowIndices :
          KeepsWhatIsSet(i) /\ KeepsInput(i) /\ ResultOnlyByFormatOutput(i)]_vars

\* a row whose every stage field has been set, the last one by format_output_node
C31_Witness ==
    \E i \in RowIndices :
        /\ pc[i] = "done"
        /\ \A f \in StageFields : state[i][f] # Absent
        /\ state[i].vendor_details # PyNone

(***************************************************************************)
(* C32: whenever the matching fan-out has completed, on every path (empty  *)
(* catalog, semantic-cache hit, no result, malformed response, validated   *)
(* success), its merged return value holds a taxonomy_matches list of 2    *)
(* entries, an attribute_matches list of 3 and a platform_matches list of  *)
(* 2, and platform_1 / platform_2 of every formatted record are "Software" *)
(* and "SaaS".                                                             *)
(***************************************************************************)
Entries(update, field) ==
    IF field \in DOMAIN update /\ update[field].t = "list"
    THEN Len(update[field].items) ELSE -1

FanOutCompleted(i) == pc[i] = "matching" /\ AllDone(calls[i], MatchingMembers)

C32_MatchListsHaveFixedSizes ==
    \A i \in RowIndices :
        /\ FanOutCompleted(i) =>
              /\ Entries(MergeMatching(calls[i]), "taxonomy_matches") = 2
              /\ Entries(MergeMatching(calls[i]), "attribute_matches") = 3
              /\ Entries(MergeMatching(calls[i]), "platform_matches") = 2
        /\ state[i].result # Absent =>
              /\ state[i].result.platform_1 = PyStr("Software")
              /\ state[i].result.platform_2 = PyStr("SaaS")
              /\ Entries(state[i], "taxonomy_matches") = 2
              /\ Entries(state[i], "attribute_matches") = 3
              /\ Entries(state[i], "platform_matches") = 2

\* the second row's fan-out has completed with the taxonomy list taken from the
\* semantic cache and the attribute call failed, after a first row was formatted
C32_Witness ==
    /\ Len(rows) = 2
    /\ state[1].result # Absent
    /\ FanOutCompleted(2)
    /\ calls[2]["taxonomy"].got = NotCalled
    /\ calls[2]["attribute"].got \in {NoResult, GarbageText}

(***************************************************************************)
(* extract_software_type_node on its own: one Row State whose              *)
(* product_details is any value a product fetch can leave, and the node's  *)
(* return value applied to it.                                             *)
(***************************************************************************)
MaxItems == 2         \* elements of a list-valued Type_of_Product: 0..MaxItems

TypeItems == {PyChars(<<"C">>), PyChars(<<"R", "M">>), PyChars(<<>>), PyInt(7), PyNone}

\* the values of the key Type_of_Product; Absent: the key is missing
TypeValues ==
    {PyChars(c) : c \in SeqsUpTo({"C", "M"}, 2)}
      \cup {PyList(items) : items \in SeqsUpTo(TypeItems, MaxItems)}
      \cup {PyNone, PyInt(0), PyInt(7), Absent}

ProductDetailsOf(type, others) ==
    PyDict((IF type = Absent THEN <<>> ELSE "Type_of_Product" :> type) @@ others)

ProductDetailsValues ==
    {Absent, PyNone, PyList(<<PyInt(1)>>)}
      \cup {ProductDetailsOf(type, others) :
                type \in TypeValues,
                others \in {<<>>, "Product_features" :> PyStr("features")}}

TypeInit ==
    /\ BatchInit({<<RowA>>}, {1}, {LoadedCatalog}, {BatchRepertoire})
    /\ probe \in {[product_details |-> pd, returned |-> FALSE, raised |-> FALSE] :
                    pd \in ProductDetailsValues}
    /\ payload = NoPayload
    /\ entry_result = Absent

\* orchestrator.py 92 and 98-99: the graph calls extract_software_type_node on the
\* Row State parallel_fetch left and applies its return value
ExtractTypeOnly ==
    /\ ~probe.returned
    /\ \E joined \in {ApplyUpdate(state[1], "product_details" :> probe.product_details)} :
       \E extracted \in {extract_software_type_node(joined)} :
           /\ probe' = [probe EXCEPT !.returned = TRUE, !.raised = ~extracted.ok]
           /\ state' = StoreState(state, 1, IF extracted.ok
                                            THEN ApplyUpdate(joined, extracted.v)
                                            ELSE joined)
    /\ UNCHANGED <<rows, max_concurrent, catalog, repertoire, semaphore, llm_semaphore,
                   pc, calls, results, cache, llm_cache, processed_results, appended>>
    /\ UNCHANGED <<now, payload, entry_result>>

TypeSpec == TypeInit /\ [][ExtractTypeOnly]_vars

(***************************************************************************)
(* C33: extract_software_type makes no Gateway call and sets software_type *)
(* to the product type string when product_details has a non-empty string  *)
(* type, to the comma-joined elements when the type is a list, and to      *)
(* "N/A" when product_details is absent or None, the type key is missing,  *)
(* or the type is empty.                                                   *)
(***************************************************************************)
RECURSIVE CommaJoined(_)
CommaJoined(items) ==
    IF items = <<>> THEN <<>>
    ELSE LET head == IF items[1].t = "chars" THEN items[1].c ELSE <<"?">>
         IN  IF Len(items) = 1 THEN head
             ELSE head \o <<",", " ">> \o CommaJoined(Tail(items))

TypeOf(product_details) ==
    IF product_details.t = "dict"
    THEN DictGet(product_details, "Type_of_Product", Absent) ELSE Absent

AllStrings(items) == \A n \in DOMAIN items : items[n].t = "chars"

NoGatewayCall ==
    /\ llm_cache = <<>>
    /\ llm_semaphore = PoolSize
    /\ \A m \in Members : calls[1][m] = IdleCall

\* what the claim says software_type is, for the inputs it speaks of
SoftwareTypeAsClaimed(product_details) ==
    LET type == TypeOf(product_details)
    IN  CASE product_details \in {Absent, PyNone} -> NA
          [] product_details.t = "dict" /\ type = Absent -> NA
          [] product_details.t = "dict" /\ type.t = "chars" ->
                IF type.c # <<>> THEN type ELSE NA
          [] product_details.t = "dict" /\ type.t = "list" ->
                IF CommaJoined(type.items) # <<>>
                THEN PyChars(CommaJoined(type.items)) ELSE NA
          [] OTHER -> state[1].software_type

Claimed(product_details) ==
    \/ product_details \in {Absent, PyNone}
    \/ product_details.t = "dict" /\ TypeOf(product_details).t \in {"absent", "chars", "list"}

C33_SoftwareTypeFromProductType ==
    probe.returned /\ Claimed(probe.product_details) =>
        /\ NoGatewayCall
        /\ ~probe.raised
        /\ state[1].software_type = SoftwareTypeAsClaimed(probe.product_details)

(***************************************************************************)
(* C34: a failed stage outcome is never cached.  In the step in which a    *)
(* vendor, product, taxonomy or attribute stage gets no result or          *)
(* unparseable text from the gateway, the semantic cache is left as it was *)
(* and holds no entry for the stage's key, and on no result the gateway's  *)
(* cache is left as it was; the next execution of that stage with the same *)
(* parameters calls the gateway again.                                     *)
(***************************************************************************)
FailedAnswers == {NoResult, GarbageText, EmptyText}

GetsFailedAnswer(i, m) ==
    /\ calls[i][m].status # "done"
    /\ calls'[i][m].status = "done"
    /\ calls'[i][m].got \in FailedAnswers

HasEntry(c, key) == \E k \in DOMAIN c : k = key

FailureNotStored(i, m) ==
    GetsFailedAnswer(i, m) =>
        /\ cache' = cache
        /\ ~HasEntry(cache', SemanticKey(m, state'[i]))
        /\ calls'[i][m].got = NoResult => llm_cache' = llm_cache

\* row j ran stage m with the parameters with which row i had run it and failed
RanAgainAfterFailure(i, j, m) ==
    /\ i < j
    /\ calls[i][m].status = "done"
    /\ calls[i][m].got \in FailedAnswers
    /\ calls[j][m].status = "done"
    /\ SemanticKey(m, state[j]) = SemanticKey(m, state[i])

C34_FailedOutcomeNeverCached ==
    [][\A i \in RowIndices, m \in Members :
          /\ FailureNotStored(i, m)
          /\ \A j \in RowIndices :
                RanAgainAfterFailure(i, j, m)' => calls'[j][m].got # NotCalled]_vars

\* the vendor fetch of the second row called the gateway after the vendor fetch
\* of the first row, for the same vendor, had got no result
C34_Witness ==
    /\ Len(rows) = 2
    /\ calls[1]["vendor"].got = NoResult
    /\ calls[1]["taxonomy"].got = GarbageText
    /\ RanAgainAfterFailure(1, 2, "vendor")
    /\ RanAgainAfterFailure(1, 2, "taxonomy")

(***************************************************************************)
(* Two products of one vendor listed under one product_url.                *)
(***************************************************************************)
RowC == Row("Salesforce", "salesforce.com", "Service Cloud", "salesforce.com/sales")

AnsweringService ==
    [vendor |-> {"object"}, product |-> {"object", "none"},
     taxonomy |-> {"object"}, attribute |-> {"object"}, build |-> {"ok"}]

UrlInit ==
    InitWith({<<RowA, RowC>>, <<RowA, RowA>>}, 1..MaxConcurrent, {LoadedCatalog},
             {AnsweringService})

UrlSpec == UrlInit /\ [][Next]_vars

(***************************************************************************)
(* C35: the product_details a row ends with were fetched for that row's    *)
(* own product_name and product_url: the semantic cache never hands a row  *)
(* product details that were fetched for a different product_name.         *)
(***************************************************************************)
\* the request whose answer the product details are: the inference service
\* answers a product prompt with the product_name and product_url of the prompt
FetchedFor(product_details) ==
    [product_name |-> product_details.d.Product_Name,
     product_url |-> product_details.d.Product_link]

C35_ProductDetailsAreOwn ==
    \A i \in RowIndices :
        /\ pc[i] = "done"
        /\ StateGet(state[i], "product_details", PyNone).t = "dict"
        /\ "Product_Name" \in DOMAIN state[i].product_details.d
        =>
            FetchedFor(state[i].product_details) =
                [product_name |-> state[i].product_name,
                 product_url |-> state[i].product_url]

(***************************************************************************)
(* The reference data on its own (config/reference.py).  In this           *)
(* specification `catalog` holds the three module globals, and `probe`     *)
(* the files under DATA_DIR together with the history of the calls.        *)
(***************************************************************************)
MaxCellLen == 3       \* characters of a PRODUCT_ATTRIBUTES cell: 0..MaxCellLen
MaxLoads == 3         \* calls of initialize_reference_data and of the getter

CellChars == {"a", "b", ",", " "}

\* a pandas DataFrame: whether it has the column PRODUCT_ATTRIBUTES, and the
\* cells of that column (PyNone: NaN), one per row
Frame(has_column, cells) == [t |-> "frame", has_column |-> has_column, cells |-> cells]

\* pd.DataFrame()
EmptyFrame == Frame(FALSE, <<>>)

\* a file read_csv cannot parse
Unreadable == [t |-> "unreadable"]

Cells == {PyChars(c) : c \in SeqsUpTo(CellChars, MaxCellLen)} \cup {PyNone}

\* products.csv: missing, unreadable, without the column, without rows, one row
ProductsFiles ==
    {Absent, Unreadable, Frame(FALSE, <<PyNone>>), Frame(TRUE, <<>>)}
      \cup {Frame(TRUE, <<cell>>) : cell \in Cells}

IntentsFiles == {Absent, Unreadable, Frame(FALSE, <<PyNone>>)}

\* the files a later deployment step may put in place of the ones read
RewrittenFiles == {Absent, Unreadable, Frame(TRUE, <<PyChars(<<"b">>)>>)}

\* reference.py 13-15: nothing loaded yet
NotLoaded ==
    [_products_df |-> PyNone, _intents_df |-> PyNone, _product_attributes |-> PyNone]

\* reference.py 68-72: the except branch
LoadedEmpty ==
    [_products_df |-> EmptyFrame, _intents_df |-> EmptyFrame,
     _product_attributes |-> PyList(<<>>)]

\* str.split(','): the pieces between the commas
RECURSIVE Split(_)
Split(text) ==
    IF \A n \in DOMAIN text : text[n] # "," THEN <<text>>
    ELSE LET at == CHOOSE n \in DOMAIN text :
                       text[n] = "," /\ \A k \in 1..(n - 1) : text[k] # ","
         IN  <<SubSeq(text, 1, at - 1)>> \o Split(SubSeq(text, at + 1, Len(text)))

\* the order of strings: by code point, a prefix first
CharRank(ch) == CASE ch = " " -> 0 [] ch = "," -> 1 [] ch = "a" -> 2 [] OTHER -> 3

RECURSIVE StrLess(_, _)
StrLess(a, b) ==
    IF a = <<>> THEN b # <<>>
    ELSE IF b = <<>> THEN FALSE
    ELSE IF a[1] # b[1] THEN CharRank(a[1]) < CharRank(b[1])
    ELSE StrLess(Tail(a), Tail(b))

\* sorted(list(attributes_set))
RECURSIVE SortedList(_)
SortedList(strings) ==
    IF strings = {} THEN <<>>
    ELSE LET least == CHOOSE x \in strings : \A y \in strings \ {x} : StrLess(x, y)
         IN  <<PyChars(least)>> \o SortedList(strings \ {least})

\* reference.py 52-58: the stripped, non-empty pieces of a cell that is not NaN
AttributesOfCell(cell) ==
    IF cell = PyNone THEN {}
    ELSE {LStrip(RStrip(piece)) : piece \in Range(Split(cell.c))} \ {<<>>}

\* _products_df.empty
IsEmptyFrame(frame) == frame.cells = <<>>

\* reference.py 51-63
ExtractAttributes(products_df) ==
    IF ~IsEmptyFrame(products_df) /\ products_df.has_column
    THEN PyList(SortedList(UNION {AttributesOfCell(products_df.cells[n]) :
                                     n \in DOMAIN products_df.cells}))
    ELSE PyList(<<>>)

\* reference.py 34-39 and 43-48: read_csv of a file that exists, else DataFrame()
ReadOrEmpty(file) == IF file = Absent THEN EmptyFrame ELSE file

\* an initialisation that would read the files again on every call
initialize_reference_data_again(globals, disk) ==
    IF disk.products = Unreadable \/ disk.intents = Unreadable
    THEN LoadedEmpty
    ELSE [_products_df |-> ReadOrEmpty(disk.products),
          _intents_df |-> ReadOrEmpty(disk.intents),
          _product_attributes |-> ExtractAttributes(ReadOrEmpty(disk.products))]

\* reference.py 18-72: the module globals after initialize_reference_data()
initialize_reference_data(globals, disk) ==
    IF globals._products_df # PyNone THEN globals
    ELSE IF disk.products = Unreadable \/ disk.intents = Unreadable
    THEN LoadedEmpty
    ELSE [_products_df |-> ReadOrEmpty(disk.products),
          _intents_df |-> ReadOrEmpty(disk.intents),
          _product_attributes |-> ExtractAttributes(ReadOrEmpty(disk.products))]

\* reference.py 96-98: `return _product_attributes or []`
AttributesOrEmpty(globals) ==
    IF Truthy(globals._product_attributes) THEN globals._product_attributes.items ELSE <<>>

RefInit ==
    /\ BatchInit({<<>>}, {1}, {NotLoaded}, {BatchRepertoire})
    /\ probe \in {[disk |-> [products |-> p, intents |-> q], loads |-> 0,
                    read |-> [products |-> p, intents |-> q],
                    before |-> NotLoaded, got_list |-> FALSE, got |-> <<>>] :
                    p \in ProductsFiles, q \in IntentsFiles}
    /\ payload = NoPayload
    /\ entry_result = Absent

RefUnchanged ==
    UNCHANGED <<rows, max_concurrent, repertoire, semaphore, llm_semaphore, pc, state,
                calls, results, cache, llm_cache, processed_results, appended,
                now, payload, entry_result>>

\* history: the files the first call found
FilesRead == IF probe.loads = 0 THEN probe.disk ELSE probe.read

\* agent_mcp.py 26: initialize_reference_data() at start-up
Initialize ==
    /\ probe.loads < MaxLoads
    /\ catalog' = initialize_reference_data(catalog, probe.disk)
    /\ probe' = [probe EXCEPT !.loads = @ + 1, !.read = FilesRead, !.before = catalog,
                               !.got_list = FALSE, !.got = <<>>]
    /\ RefUnchanged

\* reference.py 89-98: get_product_attributes_list()
GetAttributesList ==
    /\ probe.loads < MaxLoads
    /\ \E loaded \in {IF catalog._product_attributes = PyNone
                        THEN initialize_reference_data(catalog, probe.disk)
                        ELSE catalog} :
        /\ catalog' = loaded
        /\ probe' = [probe EXCEPT !.loads = @ + 1, !.read = FilesRead,
                                   !.before = catalog,
                                   !.got_list = TRUE, !.got = AttributesOrEmpty(loaded)]
    /\ RefUnchanged

\* the environment: a file under DATA_DIR is replaced, removed or damaged
Rewrite(name, file) ==
    /\ probe.disk[name] # file
    /\ probe' = [probe EXCEPT !.disk[name] = file]
    /\ UNCHANGED catalog
    /\ RefUnchanged

RefNext ==
    \/ Initialize
    \/ GetAttributesList
    \/ \E name \in {"products", "intents"}, file \in RewrittenFiles : Rewrite(name, file)

RefSpec == RefInit /\ [][RefNext]_vars

(***************************************************************************)
(* C36: the reference catalog is loaded at most once per process: once the *)
(* first initialize_reference_data call has returned (loaded, a source     *)
(* absent, or loading raised), every later call leaves the attribute list  *)
(* and the loaded tables as they were; and when the products source was    *)
(* absent or a read failed, the call returns and the attribute list is     *)
(* empty.                                                                  *)
(***************************************************************************)
FirstCallReturned == probe.loads >= 1

IsCall == probe'.loads = probe.loads + 1

LaterCallsChangeNothing == FirstCallReturned /\ IsCall => catalog' = catalog

FailedOrAbsentSource ==
    \/ probe.read.products \in {Absent, Unreadable}
    \/ probe.read.intents = Unreadable

EmptyOnFailure ==
    FirstCallReturned /\ FailedOrAbsentSource =>
        /\ catalog._product_attributes = PyList(<<>>)
        /\ catalog._products_df # PyNone
        /\ probe.got = <<>>

MaxDays == 8          \* days the process lives: 0..MaxDays

Day == 24 * 3600

\* cache_manager.py 43 and 67-68: datetime.now() is a day later
DayPasses ==
    /\ now < MaxDays * Day
    /\ now' = now + Day
    /\ UNCHANGED <<pipeline_vars, probe, payload, entry_result>>

TtlInit == InitWith({<<RowA, RowA>>}, {1}, {LoadedCatalog}, {AnsweringService})

TtlNext == Next \/ DayPasses

TtlSpec == TtlInit /\ [][TtlNext]_vars

(***************************************************************************)
(* C37: semantic-cache entries written by the vendor and product stages    *)
(* expire 604800 s after they are written, entries written by the taxonomy *)
(* and attribute stages 86400 s after they are written, and a hit never    *)
(* extends an entry's expiry: an entry is hit as long as less than that    *)
(* time has passed since it was written, it is written with that expiry,   *)
(* and only an expired entry is removed or written again.                  *)
(***************************************************************************)
ClaimedLifetime(m) == IF m \in {"vendor", "product"} THEN 604800 ELSE 86400

StageOfKey(key) ==
    CHOOSE m \in Members : ValueOf(Kwargs(m, state[1]), "type") = ValueOf(key.md5, "type")

Written(key) == key \in DOMAIN cache' /\ (key \notin DOMAIN cache \/ cache'[key] # cache[key])

WrittenWithClaimedExpiry ==
    \A key \in DOMAIN cache' :
        Written(key) =>
            /\ cache'[key].expires_at = now + ClaimedLifetime(StageOfKey(key))
            /\ key \in DOMAIN cache => cache[key].expires_at <= now

OnlyExpiredRemoved ==
    \A key \in DOMAIN cache \ DOMAIN cache' : cache[key].expires_at <= now

\* the stage returned without calling the gateway although its catalog is loaded
HitStep(i, m) ==
    /\ calls[i][m].status = "idle"
    /\ calls'[i][m].status = "done"
    /\ calls'[i][m].got = NotCalled

CalledStep(i, m) ==
    /\ calls[i][m].status = "idle"
    /\ calls'[i][m].status # "idle"
    /\ ~HitStep(i, m)

HitWithinLifetime(i, m) ==
    LET key == SemanticKey(m, state'[i])
    IN  /\ HitStep(i, m) =>
              /\ key \in DOMAIN cache
              /\ now - cache[key].created_at < ClaimedLifetime(m)
              /\ cache'[key] = cache[key]
        /\ CalledStep(i, m) /\ key \in DOMAIN cache =>
              now - cache[key].created_at >= ClaimedLifetime(m)

C37_EntriesExpireAfterTheirLifetime ==
    [][/\ WrittenWithClaimedExpiry
       /\ OnlyExpiredRemoved
       /\ \A i \in RowIndices, m \in Members : HitWithinLifetime(i, m)]_vars

\* more than a day after the first row, the second row took the vendor details
\* from the semantic cache and had to ask for the taxonomy again
C37_Witness ==
    /\ calls[2]["vendor"].status = "done"
    /\ calls[2]["vendor"].got = NotCalled
    /\ calls[2]["taxonomy"].status = "done"
    /\ calls[2]["taxonomy"].got # NotCalled
    /\ calls[1]["taxonomy"].got = calls[2]["taxonomy"].got
    /\ now < 7 * Day

(***************************************************************************)
(* The semantic cache with its statistics.  In this specification `probe`  *)
(* holds the manager's two counters and, as history, the number of get     *)
(* calls since construction or the last clear and the last operation.      *)
(***************************************************************************)
MaxGets == 3          \* get calls between two clears: 0..MaxGets

\* cache_manager.py 23-24 and 75-76
ZeroCounters == [hit_count |-> 0, miss_count |-> 0]

\* a get that would count the read of an expired entry as a hit
CountersAfterGetLenient(counters, entries, key, clock) ==
    IF key \in DOMAIN entries
    THEN [counters EXCEPT !.hit_count = @ + 1]
    ELSE [counters EXCEPT !.miss_count = @ + 1]

\* cache_manager.py 39-53: a live entry counts as a hit; an expired entry falls
\* through to the miss count, as a missing one does
CountersAfterGet(counters, entries, key, clock) ==
    IF key \in DOMAIN entries /\ Live(entries[key], clock)
    THEN [counters EXCEPT !.hit_count = @ + 1]
    ELSE [counters EXCEPT !.miss_count = @ + 1]

Counters == [hit_count |-> probe.hit_count, miss_count |-> probe.miss_count]

StatsInit ==
    /\ BatchInit({<<>>}, {1}, {LoadedCatalog}, {BatchRepertoire})
    /\ probe = [hit_count |-> 0, miss_count |-> 0, gets |-> 0, op |-> "init",
                read |-> "nothing"]
    /\ payload = NoPayload
    /\ entry_result = Absent

StatsUnchanged ==
    UNCHANGED <<rows, max_concurrent, catalog, repertoire, semaphore, llm_semaphore,
                pc, state, calls, results, llm_cache, processed_results, appended,
                now, payload, entry_result>>

\* what a get finds under its key
Found(key) ==
    IF key \notin DOMAIN cache THEN "no entry"
    ELSE IF Live(cache[key], now) THEN "live entry" ELSE "expired entry"

\* cache_manager.py 31-53: cache.get(**kwargs)
StatsGet(kwargs) ==
    /\ probe.gets < MaxGets
    /\ cache' = CacheManager_after_get(cache, _get_key(kwargs), now)
    /\ \E counted \in {CountersAfterGet(Counters, cache, _get_key(kwargs), now)} :
          probe' = [hit_count |-> counted.hit_count, miss_count |-> counted.miss_count,
                    gets |-> probe.gets + 1, op |-> "get",
                    read |-> Found(_get_key(kwargs))]
    /\ StatsUnchanged

\* cache_manager.py 55-70: cache.set(value, ttl_seconds, **kwargs)
StatsSet(value, ttl_seconds, kwargs) ==
    /\ cache' = CacheManager_set(cache, value, ttl_seconds, _get_key(kwargs), now)
    /\ probe' = [probe EXCEPT !.op = "set", !.read = "nothing"]
    /\ StatsUnchanged

\* cache_manager.py 72-77: cache.clear()
StatsClear ==
    /\ cache' = <<>>
    /\ probe' = [hit_count |-> ZeroCounters.hit_count,
                 miss_count |-> ZeroCounters.miss_count,
                 gets |-> 0, op |-> "clear", read |-> "nothing"]
    /\ StatsUnchanged

StatsNext ==
    \/ \E value \in CacheValues, ttl_seconds \in 1..MaxTtl, kwargs \in CacheParams :
          StatsSet(value, ttl_seconds, kwargs)
    \/ \E kwargs \in CacheParams : StatsGet(kwargs)
    \/ StatsClear
    \/ Tick

StatsSpec == StatsInit /\ [][StatsNext]_vars

(***************************************************************************)
(* C38: every get increments exactly one of hit_count and miss_count by    *)
(* one (the read of an expired entry counts as a miss), set changes        *)
(* neither counter, and hit_count + miss_count equals the number of get    *)
(* calls since construction or the last clear.                             *)
(***************************************************************************)
IsGetStep == probe'.op = "get" /\ probe'.gets = probe.gets + 1

HitCounted ==
    probe'.hit_count = probe.hit_count + 1 /\ probe'.miss_count = probe.miss_count

MissCounted ==
    probe'.miss_count = probe.miss_count + 1 /\ probe'.hit_count = probe.hit_count

C38_CountersCountGets ==
    [][/\ IsGetStep => (IF probe'.read = "live entry" THEN HitCounted ELSE MissCounted)
       /\ (probe'.op = "set" /\ cache' # cache) =>
              probe'.hit_count = probe.hit_count /\ probe'.miss_count = probe.miss_count
       /\ probe'.hit_count + probe'.miss_count = probe'.gets]_vars

\* an expired entry was read after a hit and a set
C38_Witness ==
    /\ probe.op = "get"
    /\ probe.read = "expired entry"
    /\ probe.hit_count = 1
    /\ probe.miss_count = 2
====
